---------------------------- MODULE Spec2Model ----------------------------
(***************************************************************************)
(* Model of the routix dispatch core (src/constraints.go, src/middleware.go,*)
(* src/respond.go): the per-method routing trie, the dispatcher ServeHTTP,  *)
(* the middleware chain, route groups, and the RateLimit and Cache          *)
(* middleware with the state their closures keep.                           *)
(*                                                                         *)
(* Strings are sequences of one-character strings, so that the code's       *)
(* splitting and byte scanning are modelled as the code performs them.      *)
(***************************************************************************)
EXTENDS Integers, Sequences, FiniteSets, TLC

VARIABLES
    trees,       \* Router.trees: method -> trie; a trie maps a node (the sequence of child keys from the root) to its fields
    middleware,  \* Router.middleware: the global middleware, in Use order
    groups,      \* the Group objects created by Router.Group: prefix and middleware
    cache,       \* Router.cache: path -> entry (the dispatcher's response cache)
    poolCtx,     \* number of Context objects idle in contextPool
    paramsPool,  \* the parameter maps idle in Router.params
    limiter,     \* RateLimit closure: client address -> admitted timestamps
    mwCache,     \* Cache closure: URL string -> entry
    now,         \* the clock read by time.Now()
    routes,      \* history: the registered routes in order, with the group they came through and the number of global middleware at that time; a route's handler is its index
    admitted,    \* history: per client, every timestamp at which RateLimit admitted a request
    lastMiss,    \* history: per URL, the last GET the Cache middleware passed to next
    served,      \* the request in flight: its inputs and everything written to its ResponseWriter
    calls,       \* the ServeHTTP calls followed step by step: where each one is, what it holds, what its handler saw and wrote
    ctxObjs,     \* the Context objects made by contextPool.New, with their fields
    ctxIdle,     \* the Context objects lying in contextPool
    mapObjs,     \* the parameter maps made by Router.params.New, with their entries
    mapIdle,     \* the parameter maps lying in Router.params
    crashed,     \* a goroutine panicked with nothing to recover it: the process is gone
    notFound,    \* Router.notFound: the handler for a path without a route
    notMethod,   \* Router.notMethod: the handler for a method without a tree
    metrics,     \* globalMetrics, and history: how many requests entered and left PerformanceMonitor
    procs,       \* the goroutines that run a middleware or a cache method statement by statement
    locks        \* the mutexes: who holds each for writing, who for reading

\* the objects of the two pools and the calls that use them
life == <<calls, ctxObjs, ctxIdle, mapObjs, mapIdle, crashed>>

\* what the dispatcher followed as one step per request leaves alone
apart == <<life, procs, locks>>

vars == <<trees, middleware, groups, cache, poolCtx, paramsPool, limiter, mwCache,
          now, routes, admitted, lastMiss, served, calls, ctxObjs, ctxIdle, mapObjs,
          mapIdle, crashed, notFound, notMethod, metrics, procs, locks>>

-----------------------------------------------------------------------------
(* Bounds of the model *)

MaxRoutes == 2      \* registrations explored
MaxSegs == 2        \* segments in a request path
MaxMw == 2          \* middleware added with Router.Use after New()
MaxTime == 3        \* the clock stops advancing here
MaxDur == 1         \* longest time a handler may run
MaxCalls == 2       \* ServeHTTP calls followed step by step, and objects a pool makes

(* The parameters given to the middleware constructors *)
Requests == 2       \* RateLimit(requests, _)
Window == 2         \* RateLimit(_, duration)
Ttl == 2            \* Cache(duration)

-----------------------------------------------------------------------------
(* Strings *)

Char == {"/", "a", "b", ":", "*"}

Slash == <<"/">>

\* s[from:] of Go, from 0-based
From(s, from) == SubSeq(s, from + 1, Len(s))

\* s[from:to] of Go, 0-based, to exclusive
Slice(s, from, to) == SubSeq(s, from + 1, to)

\* strings.Split(s, "/"): the pieces between the slashes, empty ones kept
RECURSIVE SplitFrom(_, _, _)
SplitFrom(s, i, piece) ==
    IF i > Len(s) THEN <<piece>>
    ELSE IF s[i] = "/" THEN <<piece>> \o SplitFrom(s, i + 1, <<>>)
    ELSE SplitFrom(s, i + 1, Append(piece, s[i]))

Split(s) == SplitFrom(s, 1, <<>>)

\* a finite map with one more binding, as m[k] = v on a Go map
Put(m, k, v) == [x \in DOMAIN m \cup {k} |-> IF x = k THEN v ELSE m[x]]

EmptyMap == [x \in {} |-> 0]

-----------------------------------------------------------------------------
(* The routing trie: Router.Handle and Router.findHandlerOptimized *)

Methods == {"GET", "POST"}

\* the nil Handler
NilHandler == 0

\* the keys under which Handle files the parameter child and the wildcard child
ParamKey == <<":">>
WildKey == <<"*">>

\* the root of a trie: the empty sequence of child keys
RootNode == <<>>

\* &node{...} as Handle builds it for a segment
NewNode(part, params, wildcard) ==
    [path |-> part, handlers |-> EmptyMap, params |-> params, wildcard |-> wildcard]

\* r.trees[method] = &node{...} when the method has no trie yet
WithTree(ts, method) ==
    IF method \in DOMAIN ts THEN ts
    ELSE Put(ts, method, (RootNode :> NewNode(<<>>, <<>>, FALSE)))

\* root.children[key] assigned anew at every registration
WithChildReplaced(tree, child, node) == Put(tree, child, node)

\* root.children[key], created when nil
WithChild(tree, child, node) ==
    IF child \in DOMAIN tree THEN tree ELSE Put(tree, child, node)

\* root.handlers[method] = handler
StoreHandlerFirstWins(tree, n, method, handler) ==
    IF method \in DOMAIN tree[n].handlers THEN tree
    ELSE [tree EXCEPT ![n].handlers = Put(@, method, handler)]

StoreHandler(tree, n, method, handler) ==
    [tree EXCEPT ![n].handlers = Put(@, method, handler)]

\* the loop of Handle over parts, i counting from 1
RECURSIVE HandleParts(_, _, _, _, _, _)
HandleParts(tree, root, parts, i, method, handler) ==
    IF i > Len(parts) THEN tree
    ELSE LET part == parts[i] IN
        IF part = <<>> THEN HandleParts(tree, root, parts, i + 1, method, handler)
        ELSE
            LET child == IF part[1] = ":" THEN Append(root, ParamKey)
                         ELSE IF part = <<"*">> THEN Append(root, WildKey)
                         ELSE Append(root, part)
                node == IF part[1] = ":" THEN NewNode(part, <<Tail(part)>>, TRUE)
                        ELSE IF part = <<"*">> THEN NewNode(part, <<>>, TRUE)
                        ELSE NewNode(part, <<>>, FALSE)
                t1 == WithChild(tree, child, node)
                t2 == IF i = Len(parts) THEN StoreHandler(t1, child, method, handler)
                      ELSE t1
            IN HandleParts(t2, child, parts, i + 1, method, handler)

\* Router.Handle on the tries; path is not empty (path[0] panics on "")
HandleTrees(ts, method, path0, handler) ==
    LET path == IF path0[1] # "/" THEN Slash \o path0 ELSE path0
        ts1 == WithTree(ts, method)
        tree == ts1[method]
    IN IF path = Slash
       THEN [ts1 EXCEPT ![method] = StoreHandler(tree, RootNode, method, handler)]
       ELSE [ts1 EXCEPT ![method] =
                HandleParts(tree, RootNode, Tail(Split(path)), 1, method, handler)]

\* the inner scan of findHandlerOptimized: the first end >= start (0-based)
\* with end = len(path) or path[end] = '/'
RECURSIVE SegEnd(_, _)
SegEnd(path, end) ==
    IF end < Len(path) /\ path[end + 1] # "/" THEN SegEnd(path, end + 1) ELSE end

Result(handler, found, params) ==
    [handler |-> handler, found |-> found, params |-> params]

\* "Check if handler exists for this method" at the node the walk ended on
HandlerAt(tree, current, method, params) ==
    IF method \in DOMAIN tree[current].handlers
    THEN Result(tree[current].handlers[method], TRUE, params)
    ELSE Result(NilHandler, FALSE, params)

\* which child the walk takes for a segment: the three lookups in the code's order
MatchChildParamFirst(tree, current, part) ==
    IF Append(current, ParamKey) \in DOMAIN tree THEN "param"
    ELSE IF Append(current, part) \in DOMAIN tree THEN "static"
    ELSE IF Append(current, WildKey) \in DOMAIN tree THEN "wildcard"
    ELSE "none"

MatchChild(tree, current, part) ==
    IF Append(current, part) \in DOMAIN tree THEN "static"
    ELSE IF Append(current, ParamKey) \in DOMAIN tree THEN "param"
    ELSE IF Append(current, WildKey) \in DOMAIN tree THEN "wildcard"
    ELSE "none"

\* params[child.params[0]] = part
BindParam(params, child, part) ==
    IF Len(child.params) > 0 THEN Put(params, child.params[1], part) ELSE params

\* params["*"] = path[start:]
BindWildcard(params, path, start) ==
    IF start < Len(path) THEN Put(params, WildKey, From(path, start)) ELSE params

\* a walk that comes back to the parameter child, and then to the wildcard
\* child, when the branch it took first ends without a handler
RECURSIVE WalkBacktracking(_, _, _, _, _, _)
WalkBacktracking(tree, path, method, current, start, params) ==
    IF start >= Len(path) THEN HandlerAt(tree, current, method, params)
    ELSE
        LET end == SegEnd(path, start)
            part == Slice(path, start, end)
            viaStatic ==
                IF Append(current, part) \in DOMAIN tree
                THEN WalkBacktracking(tree, path, method, Append(current, part),
                                      end + 1, params)
                ELSE Result(NilHandler, FALSE, params)
            viaParam ==
                IF Append(current, ParamKey) \in DOMAIN tree
                THEN WalkBacktracking(tree, path, method, Append(current, ParamKey),
                                      end + 1,
                                      BindParam(params, tree[Append(current, ParamKey)],
                                                part))
                ELSE Result(NilHandler, FALSE, params)
            viaWild ==
                IF Append(current, WildKey) \in DOMAIN tree
                THEN HandlerAt(tree, Append(current, WildKey), method,
                               BindWildcard(params, path, start))
                ELSE Result(NilHandler, FALSE, params)
        IN IF start = end
           THEN WalkBacktracking(tree, path, method, current, start + 1, params)
           ELSE IF viaStatic.found THEN viaStatic
           ELSE IF viaParam.found THEN viaParam
           ELSE viaWild

\* a walk that takes the empty piece between two slashes for a segment
RECURSIVE WalkKeepsEmpty(_, _, _, _, _, _)
WalkKeepsEmpty(tree, path, method, current, start, params) ==
    IF start >= Len(path) THEN HandlerAt(tree, current, method, params)
    ELSE
        LET end == SegEnd(path, start)
            part == Slice(path, start, end)
            kind == MatchChild(tree, current, part)
        IN IF kind = "static"
           THEN WalkKeepsEmpty(tree, path, method, Append(current, part), end + 1,
                               params)
           ELSE IF kind = "param"
           THEN WalkKeepsEmpty(tree, path, method, Append(current, ParamKey), end + 1,
                               BindParam(params, tree[Append(current, ParamKey)], part))
           ELSE IF kind = "wildcard"
           THEN HandlerAt(tree, Append(current, WildKey), method,
                          BindWildcard(params, path, start))
           ELSE Result(NilHandler, FALSE, params)

\* the loop of findHandlerOptimized, start 0-based as in the code
RECURSIVE Walk(_, _, _, _, _, _)
Walk(tree, path, method, current, start, params) ==
    IF start >= Len(path) THEN HandlerAt(tree, current, method, params)
    ELSE
        LET end == SegEnd(path, start)
            part == Slice(path, start, end)
            kind == MatchChild(tree, current, part)
        IN IF start = end THEN Walk(tree, path, method, current, start + 1, params)
           ELSE IF kind = "static"
           THEN Walk(tree, path, method, Append(current, part), end + 1, params)
           ELSE IF kind = "param"
           THEN Walk(tree, path, method, Append(current, ParamKey), end + 1,
                     BindParam(params, tree[Append(current, ParamKey)], part))
           ELSE IF kind = "wildcard"
           THEN HandlerAt(tree, Append(current, WildKey), method,
                          BindWildcard(params, path, start))
           ELSE Result(NilHandler, FALSE, params)

\* Router.findHandlerOptimized(root, path, method, params)
findHandlerOptimized(tree, path, method, params) ==
    IF path = Slash THEN HandlerAt(tree, RootNode, method, params)
    ELSE IF Len(path) = 0 THEN Result(NilHandler, FALSE, params)
    ELSE Walk(tree, path, method, RootNode, 1, params)

-----------------------------------------------------------------------------
(* The http.ResponseWriter the handlers write to, and the helpers that write *)

\* the ResponseWriter handed to ServeHTTP: nothing written yet
NewWriter == [hdr |-> EmptyMap, code |-> 0, body |-> <<>>, wrote |-> FALSE]

\* httptest.NewRecorder(): Code starts at 200
NewRecorder == [hdr |-> EmptyMap, code |-> 200, body |-> <<>>, wrote |-> FALSE]

\* w.Header().Set(k, v)
SetHeader(w, k, v) == [w EXCEPT !.hdr = Put(@, k, v)]

\* for k, v := range headers { w.Header()[k] = v }
CopyHeaders(w, headers) ==
    [w EXCEPT !.hdr = [k \in DOMAIN @ \cup DOMAIN headers |->
                          IF k \in DOMAIN headers THEN headers[k] ELSE @[k]]]

\* w.WriteHeader(code): only the first call sets the status
WriteHeader(w, code) ==
    IF w.wrote THEN w ELSE [w EXCEPT !.code = code, !.wrote = TRUE]

\* w.Write(b): writes the header with 200 when none was written
Write(w, b) ==
    LET w1 == IF w.wrote THEN w ELSE [w EXCEPT !.code = 200, !.wrote = TRUE]
    IN [w1 EXCEPT !.body = Append(@, b)]

\* Context.JSON(status, data)
JSON(w, status, data) ==
    Write(WriteHeader(SetHeader(w, "Content-Type", "application/json"), status),
          <<"json", data>>)

\* Context.Error(err, fallbackMessage): c.JSON(400, ConvertError(err, fallbackMessage))
ErrorStatus == 400

ContextError(w, err) == JSON(w, ErrorStatus, <<"error", err>>)

\* http.Error(w, msg, code)
HttpError(w, msg, code) ==
    Write(WriteHeader(SetHeader(w, "Content-Type", "text/plain; charset=utf-8"), code),
          msg)

-----------------------------------------------------------------------------
(* Handlers and middleware.  A Handler value is the route's handler          *)
(* [kind |-> "route", id |-> n] or a middleware's wrapper around a next       *)
(* Handler, [kind |-> name, next |-> h].                                      *)

\* the middleware that act before and after next and touch nothing else
Tracers == {"Logger", "A", "B", "G"}

\* c.Request.URL.String(): the path, then "?" and the raw query when there is one
URLString(path, query) == IF query = <<>> THEN path ELSE path \o <<"?">> \o query

\* time.Now().Add(duration)
Expiry(t, duration) == t + duration

\* the cached struct literal
Entry(response, headers, code, expires) ==
    [response |-> response, headers |-> headers, code |-> code, expires |-> expires]

\* Router.CacheResponse(key, response, headers, code, duration) at time t
CacheResponse(entries, key, response, headers, code, t, duration) ==
    Put(entries, key, Entry(response, headers, code, Expiry(t, duration)))

\* the recorder after the Handler found in the request's context under "handler"
\* has answered newCtx: 200 and the query it saw
InnerResponse(c) == JSON(NewRecorder, 200, <<"q", c.query>>)

\* Context.Cache(duration).  c.vals tells what c.Request.Context() holds under
\* "handler" and "router": "none" (nothing: the type assertion on the nil value
\* panics), "ok" (a Handler that answers 200 with the query it saw, and this
\* router) or "err" (a Handler that returns an error, and this router).
ContextCache(c, st, duration) ==
    IF c.vals = "none" THEN [st |-> [st EXCEPT !.cc = "panic"], panic |-> TRUE]
    ELSE IF c.vals = "err" THEN [st |-> [st EXCEPT !.cc = "error"], panic |-> FALSE]
    ELSE [st |-> [st EXCEPT !.cc = "stored",
                            !.cache = CacheResponse(@, c.path,
                                                    InnerResponse(c).body,
                                                    InnerResponse(c).hdr,
                                                    InnerResponse(c).code,
                                                    st.now, duration)],
          panic |-> FALSE]

\* what one call of a route's handler does: it calls c.Cache(Ttl) first when
\* out.cache, runs for dur, then either writes status and body and returns nil,
\* or returns an error, having written a 200 header before when out.partial, or
\* panics
HandlerReturn(out, cc) ==
    IF cc.panic \/ out.err = "panic"
    THEN [st |-> cc.st, err |-> "panic", code |-> 0]
    ELSE IF out.err = "nil"
    THEN [st |-> [cc.st EXCEPT !.now = @ + out.dur,
                               !.w = JSON(@, out.code, out.body)],
          err |-> "nil", code |-> 0]
    ELSE [st |-> [cc.st EXCEPT
                     !.now = @ + out.dur,
                     !.ret = [err |-> out.err, code |-> out.code],
                     !.w = IF out.partial
                           THEN WriteHeader(SetHeader(@, "Content-Type",
                                                      "application/json"), 200)
                           ELSE @],
          err |-> out.err, code |-> out.code]

HandlerEntered(id, c, st) ==
    [st EXCEPT !.log = Append(@, <<"H", id>>), !.invoked = id, !.seen = c.params]

RunHandler(id, c, st, out) ==
    HandlerReturn(out, IF out.cache THEN ContextCache(c, HandlerEntered(id, c, st), Ttl)
                       ELSE [st |-> HandlerEntered(id, c, st), panic |-> FALSE])

\* limiter[ip] after "Clean old timestamps"
ValidStamps(stamps, t, duration) ==
    SelectSeq(stamps, LAMBDA x : t - x < duration)

StampsOf(lim, ip) == IF ip \in DOMAIN lim THEN lim[ip] ELSE <<>>

\* "Check rate limit": len(limiter[ip]) >= requests
OverLimitOffByOne(valid, requests) == Len(valid) > requests

OverLimit(valid, requests) == Len(valid) >= requests

\* "Check cache": an entry exists and time.Now().Before(cached.expires)
CacheHitInclusive(entries, key, t) ==
    key \in DOMAIN entries /\ t <= entries[key].expires

CacheHit(entries, key, t) ==
    key \in DOMAIN entries /\ t < entries[key].expires

\* "Write cached response" on a hit: the headers, the status, the body
WriteCachedNoStatus(w, cached) ==
    [CopyHeaders(w, cached.headers) EXCEPT !.code = 200, !.wrote = TRUE,
                                           !.body = @ \o cached.response]

WriteCached(w, cached) ==
    LET w1 == WriteHeader(CopyHeaders(w, cached.headers), cached.code)
    IN [w1 EXCEPT !.body = @ \o cached.response]

\* "Copy the response to the original response writer" after a miss
CopyRecorder(w, recorder) ==
    LET w1 == WriteHeader(CopyHeaders(w, recorder.hdr), recorder.code)
    IN [w1 EXCEPT !.body = @ \o recorder.body]

\* h(c) for a Handler value h; st carries the ResponseWriter of c and the state
\* the middleware closures share; the result is the state after and the error
\* a tracing middleware after next(c) returned r: its after-part, unless a panic
\* is unwinding the stack
AfterNext(kind, r) ==
    IF r.err = "panic" THEN r
    ELSE [r EXCEPT !.st.log = Append(@, <<kind, "after">>)]

\* the Cache middleware after next(newCtx) returned r with the recorder r.st.w:
\* an error (or a panic) leaves the map and the real writer w as they were,
\* success stores the recording and copies it to w
CacheMissStoresAlways(w, key, r) ==
    [r EXCEPT
        !.st.mwCache = Put(@, key, Entry(r.st.w.body, r.st.w.hdr, r.st.w.code,
                                         Expiry(r.st.now, Ttl))),
        !.st.storedAt = r.st.now,
        !.st.w = CopyRecorder(w, r.st.w)]

CacheMiss(w, key, r) ==
    IF r.err # "nil" THEN [r EXCEPT !.st.w = w]
    ELSE [r EXCEPT
             !.st.mwCache = Put(@, key, Entry(r.st.w.body, r.st.w.hdr, r.st.w.code,
                                              Expiry(r.st.now, Ttl))),
             !.st.storedAt = r.st.now,
             !.st.w = CopyRecorder(w, r.st.w)]

\* Recovery's deferred func when recover() returned the panic value: Content-Type,
\* WriteHeader(routixErr.Code), the encoded error
RecoveryResponse(w) ==
    Write(WriteHeader(SetHeader(w, "Content-Type", "application/json"), 500),
          <<"json", <<"error", 500>>>>)

\* Recovery after next(c) came back with r.  The deferred func assigns nothing to
\* the result of the enclosing func, which has no name: after a recovered panic
\* Recovery returns the zero value of error
Recovered(r) ==
    IF r.err # "panic" THEN r
    ELSE [st |-> [r.st EXCEPT !.w = RecoveryResponse(@), !.recovered = TRUE],
          err |-> "nil", code |-> 0]

\* globalMetrics.ActiveRequests++ under the lock
Entered(m) == [m EXCEPT !.ActiveRequests = @ + 1, !.entered = @ + 1]

\* Metrics.UpdateMetrics(latency, isError); the latencies are not followed
UpdateMetrics(m, isError) ==
    [m EXCEPT !.RequestCount = @ + 1,
              !.ErrorCount = IF isError THEN @ + 1 ELSE @]

\* PerformanceMonitor after next(c) came back with r: UpdateMetrics and the
\* decrement are plain statements after the call, a panic passes them by
Monitored(r) ==
    IF r.err = "panic" THEN [r EXCEPT !.st.metrics.left = @ + 1]
    ELSE [r EXCEPT !.st.metrics =
                       [UpdateMetrics(@, r.err # "nil") EXCEPT
                           !.ActiveRequests = @ - 1, !.left = @ + 1]]

RECURSIVE Exec(_, _, _, _)
Exec(h, c, st, out) ==
    IF h.kind = "route" THEN RunHandler(h.id, c, st, out)
    ELSE IF h.kind \in Tracers THEN
        \* Logger: the part before next, next(c), the part after, return err
        AfterNext(h.kind,
                  Exec(h.next, c, [st EXCEPT !.log = Append(@, <<h.kind, "before">>)], out))
    ELSE IF h.kind = "RateLimit" THEN
        LET valid == ValidStamps(StampsOf(st.limiter, c.ip), st.now, Window)
        IN IF OverLimit(valid, Requests)
           THEN [st |-> [st EXCEPT !.limiter = Put(@, c.ip, valid),
                                   !.rl = "reject",
                                   !.w = ContextError(@, "rate limit exceeded")],
                 err |-> "nil", code |-> 0]
           ELSE Exec(h.next, c,
                     [st EXCEPT !.limiter = Put(@, c.ip, Append(valid, st.now)),
                                !.admitted = Put(@, c.ip, Append(StampsOf(@, c.ip), st.now)),
                                !.rl = "pass"],
                     out)
    ELSE IF h.kind = "Recovery" THEN
        Recovered(Exec(h.next, c, st, out))
    ELSE IF h.kind = "PerformanceMonitor" THEN
        Monitored(Exec(h.next, c, [st EXCEPT !.metrics = Entered(@)], out))
    ELSE IF h.kind = "Timeout" THEN
        \* the handler returns before the timer fires; the race between the two
        \* is followed in Acquire .. Return below
        Exec(h.next, c, st, out)
    ELSE \* h.kind = "Cache"
        LET key == URLString(c.path, c.query) IN
        IF c.method # "GET" THEN Exec(h.next, c, [st EXCEPT !.ch = "bypass"], out)
        ELSE IF CacheHit(st.mwCache, key, st.now)
        THEN [st |-> [st EXCEPT !.ch = "hit", !.w = WriteCached(@, st.mwCache[key])],
              err |-> "nil", code |-> 0]
        ELSE CacheMiss(st.w, key,
                       Exec(h.next, c, [st EXCEPT !.ch = "miss", !.w = NewRecorder], out))

\* h := handler; for i := len(r.middleware) - 1; i >= 0; i-- { h = r.middleware[i](h) }
RECURSIVE ComposeFrom(_, _, _)
ComposeFrom(mw, i, h) ==
    IF i < 1 THEN h ELSE ComposeFrom(mw, i - 1, [kind |-> mw[i], next |-> h])

RECURSIVE ComposeUpFrom(_, _, _)
ComposeUpFrom(mw, i, h) ==
    IF i > Len(mw) THEN h ELSE ComposeUpFrom(mw, i + 1, [kind |-> mw[i], next |-> h])

ComposeFirstInnermost(mw, handler) ==
    ComposeUpFrom(mw, 1, [kind |-> "route", id |-> handler])

Compose(mw, handler) == ComposeFrom(mw, Len(mw), [kind |-> "route", id |-> handler])

-----------------------------------------------------------------------------
(* The dispatcher *)

\* Router.GetCachedResponse(key) at time t: the lookup and the map it leaves
GetCachedResponse(c, key, t) ==
    IF key \in DOMAIN c
    THEN IF t < c[key].expires
         THEN [ok |-> TRUE, cache |-> c]
         ELSE [ok |-> FALSE, cache |-> [k \in DOMAIN c \ {key} |-> c[k]]]
    ELSE [ok |-> FALSE, cache |-> c]

\* contextPool.Get() and contextPool.Put(ctx) on the number of idle Contexts
getContextFromPool(n) == IF n > 0 THEN n - 1 ELSE 0
putContextToPool(n) == n + 1

\* r.params.Get(): an idle map, or a new one
ParamsGet(pool) == IF pool = <<>> THEN EmptyMap ELSE Head(pool)
ParamsRest(pool) == IF pool = <<>> THEN <<>> ELSE Tail(pool)

\* the deferred func: for k := range params { delete(params, k) }; r.params.Put(params)
ParamsPut(pool, params) == Append(pool, [k \in {} |-> params[k]])

\* the dispatcher's answer from its cache: the headers, the status, the body
ServeCachedNoHeaders(w, entry) ==
    [WriteHeader(w, entry.code) EXCEPT !.body = @ \o entry.response]

ServeCached(w, entry) ==
    LET w1 == WriteHeader(CopyHeaders(w, entry.headers), entry.code)
    IN [w1 EXCEPT !.body = @ \o entry.response]

\* the error boundary at the end of ServeHTTP
ErrorBoundaryAlways500(w, err, code) ==
    IF err = "nil" THEN w ELSE HttpError(w, err, 500)

ErrorBoundary(w, err, code) ==
    IF err = "nil" THEN w
    ELSE IF err = "routix"
    THEN Write(WriteHeader(SetHeader(w, "Content-Type", "application/json"), code),
               <<"json", <<"error", code>>>>)
    ELSE HttpError(w, err, 500)

\* r.notFound(ctx) and r.notMethod(ctx), whose result ServeHTTP does not take:
\* the handler New() installs writes the status and returns nil; the handler
\* given to Router.NotFound or Router.MethodNotAllowed here returns
\* NewError(code, msg) and leaves the writing to its caller
Fallback(handler, code, msg) ==
    IF handler = "default"
    THEN [w |-> HttpError(NewWriter, msg, code), err |-> "nil",
          ret |-> [err |-> "nil", code |-> 0]]
    ELSE [w |-> NewWriter, err |-> "routix",
          ret |-> [err |-> "routix", code |-> code]]

\* globalMetrics before the first request
NoMetrics ==
    [RequestCount |-> 0, ErrorCount |-> 0, ActiveRequests |-> 0, entered |-> 0,
     left |-> 0]

\* no GET for the URL has passed through the Cache middleware to next
NoMiss ==
    [has |-> FALSE, t0 |-> 0, at |-> -1, w |-> NewWriter, err |-> "nil", runs |-> 0]

\* no request in flight
Idle ==
    [active |-> FALSE, method |-> "", path |-> <<>>, query |-> <<>>, ip |-> "",
     t0 |-> 0, by |-> "none", handler |-> NilHandler, params |-> EmptyMap,
     log |-> <<>>, w |-> NewWriter, err |-> "nil", invoked |-> NilHandler,
     seen |-> EmptyMap, rl |-> "none", ch |-> "none", storedAt |-> -1,
     admBefore |-> <<>>, prevMiss |-> NoMiss, prevExp |-> -1,
     vals |-> "none", ret |-> [err |-> "nil", code |-> 0],
     acquired |-> 0, released |-> 0, cc |-> "none", cw |-> NewWriter,
     recovered |-> FALSE]

\* what the middleware chain starts from
ChainState(w) ==
    [w |-> w, log |-> <<>>, limiter |-> limiter, mwCache |-> mwCache, now |-> now,
     admitted |-> admitted, invoked |-> NilHandler, seen |-> EmptyMap,
     rl |-> "none", ch |-> "none", storedAt |-> -1, cache |-> cache,
     ret |-> [err |-> "nil", code |-> 0], cc |-> "none", metrics |-> metrics,
     recovered |-> FALSE]

Arrived(method, path, query, ip, vals) ==
    [Idle EXCEPT !.active = TRUE, !.method = method, !.path = path, !.query = query,
                 !.ip = ip, !.t0 = now, !.vals = vals,
                 !.prevExp = IF URLString(path, query) \in DOMAIN mwCache
                             THEN mwCache[URLString(path, query)].expires ELSE -1,
                 !.admBefore = StampsOf(admitted, ip),
                 !.prevMiss = IF URLString(path, query) \in DOMAIN lastMiss
                              THEN lastMiss[URLString(path, query)] ELSE NoMiss]

\* what ServeHTTP has written when it is left: by the error boundary when the
\* chain returned, by nobody when the chain panicked and the stack is unwound
Outcome(w, err, code) == IF err = "panic" THEN w ELSE ErrorBoundary(w, err, code)

\* ServeHTTP after the chain h(ctx) came back with r (lines 465-473 and the
\* deferred calls)
Chained(req, res, r) ==
    /\ served' = [req EXCEPT
                     !.by = "route", !.handler = res.handler,
                     !.params = res.params, !.log = r.st.log,
                     !.acquired = 1, !.released = 1,
                     !.w = Outcome(r.st.w, r.err, r.code),
                     !.err = r.err, !.invoked = r.st.invoked,
                     !.seen = r.st.seen, !.rl = r.st.rl, !.ch = r.st.ch,
                     !.storedAt = r.st.storedAt, !.ret = r.st.ret, !.cc = r.st.cc,
                     !.cw = r.st.w, !.recovered = r.st.recovered]
    /\ cache' = r.st.cache
    /\ metrics' = r.st.metrics
    /\ limiter' = r.st.limiter
    /\ mwCache' = r.st.mwCache
    /\ now' = r.st.now
    /\ admitted' = r.st.admitted
    /\ lastMiss' = IF r.st.ch = "miss"
                   THEN Put(lastMiss, URLString(req.path, req.query),
                            [has |-> TRUE, t0 |-> now, at |-> r.st.storedAt,
                             w |-> Outcome(r.st.w, r.err, r.code),
                             err |-> r.err,
                             runs |-> Len(SelectSeq(r.st.log, LAMBDA e : e[1] = "H"))])
                   ELSE lastMiss

\* ServeHTTP after findHandlerOptimized returned res (lines 449-463)
Resolved(req, entries, res, out) ==
    /\ poolCtx' = putContextToPool(getContextFromPool(poolCtx))
    /\ paramsPool' = ParamsPut(ParamsRest(paramsPool), res.params)
    /\ IF ~res.found THEN
           /\ served' = [req EXCEPT !.by = "notFound", !.params = res.params,
                            !.acquired = 1, !.released = 1,
                            !.w = Fallback(notFound, 404, "404 Not Found").w,
                            !.err = Fallback(notFound, 404, "404 Not Found").err,
                            !.ret = Fallback(notFound, 404, "404 Not Found").ret]
           /\ cache' = entries
           /\ UNCHANGED <<limiter, mwCache, now, admitted, lastMiss, metrics>>
       ELSE
           Chained(req, res,
                   Exec(Compose(middleware, res.handler),
                        [method |-> req.method, path |-> req.path, query |-> req.query,
                         ip |-> req.ip, params |-> res.params, vals |-> req.vals],
                        [ChainState(NewWriter) EXCEPT !.cache = entries], out))
    /\ UNCHANGED <<trees, middleware, groups, routes>>

\* ServeHTTP after the cache probe returned (lines 411-427)
Probed(req, probe, out) ==
    IF probe.ok THEN
        /\ served' = [req EXCEPT !.by = "cache",
                         !.w = ServeCached(NewWriter, cache[req.path])]
        /\ UNCHANGED <<trees, middleware, groups, cache, poolCtx, paramsPool,
                       limiter, mwCache, now, routes, admitted, lastMiss, metrics>>
    ELSE IF req.method \notin DOMAIN trees THEN
        /\ served' = [req EXCEPT !.by = "notMethod", !.acquired = 1,
                         !.w = Fallback(notMethod, 405, "405 Method Not Allowed").w,
                         !.err = Fallback(notMethod, 405, "405 Method Not Allowed").err,
                         !.ret = Fallback(notMethod, 405, "405 Method Not Allowed").ret]
        /\ cache' = probe.cache
        /\ poolCtx' = getContextFromPool(poolCtx)
        /\ UNCHANGED <<trees, middleware, groups, paramsPool, limiter, mwCache,
                       now, routes, admitted, lastMiss, metrics>>
    ELSE
        Resolved(req, probe.cache,
                 findHandlerOptimized(trees[req.method], req.path, req.method,
                                      ParamsGet(paramsPool)),
                 out)

\* Router.ServeHTTP(w, req) for one request, from its first line to its return
\* or to the panic that leaves it; vals is what the request's context holds for
\* Context.Cache, out is what the route's handler does if it is called
ServeHTTPCtx(method, path, query, ip, vals, out) ==
    /\ UNCHANGED <<apart, notFound, notMethod>>
    /\ ~served.active
    /\ Probed(Arrived(method, path, query, ip, vals),
              IF method = "GET" THEN GetCachedResponse(cache, path, now)
              ELSE [ok |-> FALSE, cache |-> cache],
              out)

\* a request as the net/http server hands it over: its context holds neither
\* "handler" nor "router"
ServeHTTP(method, path, query, ip, out) ==
    ServeHTTPCtx(method, path, query, ip, "none", out)

\* ServeHTTP has returned and the response has gone to the client
Finish ==
    /\ UNCHANGED <<apart, notFound, notMethod, metrics>>
    /\ served.active
    /\ served' = Idle
    /\ UNCHANGED <<trees, middleware, groups, cache, poolCtx, paramsPool, limiter,
                   mwCache, now, routes, admitted, lastMiss>>

\* time passes between requests
Tick ==
    /\ UNCHANGED <<apart, notFound, notMethod, metrics>>
    /\ ~served.active
    /\ now < MaxTime
    /\ now' = now + 1
    /\ UNCHANGED <<trees, middleware, groups, cache, poolCtx, paramsPool, limiter,
                   mwCache, routes, admitted, lastMiss, served>>

-----------------------------------------------------------------------------
(* ServeHTTP step by step, on the objects of contextPool and Router.params.   *)
(* A call k is the goroutine net/http runs ServeHTTP(w, req) in; its handler  *)
(* runs in the same goroutine, or in the goroutine Timeout starts for it.     *)

\* the global middleware hold Timeout
TimeoutInChain == \E i \in 1..Len(middleware) : middleware[i] = "Timeout"

\* &Context{} as the pool's New makes it, and the fields putContextToPool leaves:
\* 0 is a nil pointer or interface, the nil map reads as the empty one
NilContext == [Request |-> 0, Response |-> 0, Params |-> 0, Query |-> <<>>]

\* the fields getContextFromPool(req, w, params, query, body) assigns
SetContext(req, w, params, query) ==
    [Request |-> req, Response |-> w, Params |-> params, Query |-> query]

\* sync.Pool.Get(): an idle object, or a new one from New
PoolGet(objs, idle) == idle \cup (IF Len(objs) < MaxCalls THEN {Len(objs) + 1} ELSE {})

\* the object x of a pool, a new one being what New returned
PoolObj(objs, x, new) == IF x \in 1..Len(objs) THEN objs[x] ELSE new

\* the objects after object x took the value v
PoolSet(objs, x, v) ==
    IF x \in 1..Len(objs) THEN [objs EXCEPT ![x] = v] ELSE Append(objs, v)

\* the map put back with its entries
ParamsKept(params) == params

\* for k := range params { delete(params, k) }
ParamsCleared(params) == [k \in {} |-> params[k]]

\* what a handler reads through its *Context c: c.Request, c.Params, c.Query
ReadContext(c) ==
    [request |-> ctxObjs[c].Request,
     params |-> IF ctxObjs[c].Params = 0 THEN EmptyMap ELSE mapObjs[ctxObjs[c].Params],
     query |-> ctxObjs[c].Query]

NoRead == [request |-> 0, params |-> EmptyMap, query |-> <<>>]

\* a call that has not begun
NoCall ==
    [pc |-> "idle", path |-> <<>>, query |-> <<>>, w |-> NewWriter, ctx |-> 0,
     params |-> 0, timedOut |-> FALSE, viaTimeout |-> FALSE, hpc |-> "none",
     saw |-> NoRead, live |-> FALSE, wroteTo |-> 0]

\* ServeHTTP is between its first line and its return
InFlight(k) == calls[k].pc \notin {"idle", "done"}

\* the handler of call k has been entered and has not returned
HandlerRunning(k) == calls[k].hpc = "run"

router == <<trees, middleware, groups, poolCtx, paramsPool, limiter, mwCache, now,
            routes, admitted, lastMiss, served, notFound, notMethod, metrics, procs,
            locks>>

\* lines 408-419: a GET request arrives and the dispatcher's cache is probed
Arrive(k, path, query) ==
    /\ ~crashed
    /\ calls[k].pc = "idle"
    /\ \A j \in 1..(k - 1) : calls[j].pc # "idle"
    /\ LET probe == GetCachedResponse(cache, path, now) IN
       /\ cache' = probe.cache
       /\ calls' = [calls EXCEPT ![k] =
              IF probe.ok
              THEN [@ EXCEPT !.pc = "done", !.path = path, !.query = query,
                             !.w = ServeCached(NewWriter, cache[path])]
              ELSE [@ EXCEPT !.pc = "probed", !.path = path, !.query = query]]
    /\ UNCHANGED <<router, ctxObjs, ctxIdle, mapObjs, mapIdle, crashed>>

\* lines 420-425: no tree for the method; a Context is taken for r.notMethod and
\* ServeHTTP returns
NoTree(k, x) ==
    /\ ~crashed
    /\ calls[k].pc = "probed"
    /\ "GET" \notin DOMAIN trees
    /\ x \in PoolGet(ctxObjs, ctxIdle)
    /\ ctxObjs' = PoolSet(ctxObjs, x, SetContext(k, k, 0, <<>>))
    /\ ctxIdle' = ctxIdle \ {x}
    /\ calls' = [calls EXCEPT ![k].pc = "done", ![k].ctx = x,
                              ![k].w = HttpError(@, "405 Method Not Allowed", 405)]
    /\ UNCHANGED <<router, cache, mapObjs, mapIdle, crashed>>

\* lines 427-459: the parameter map m and the Context x are taken from the pools,
\* the route is resolved into m; without a route r.notFound(ctx) answers
Acquire(k, m, x) ==
    /\ ~crashed
    /\ calls[k].pc = "probed"
    /\ "GET" \in DOMAIN trees
    /\ m \in PoolGet(mapObjs, mapIdle)
    /\ x \in PoolGet(ctxObjs, ctxIdle)
    /\ LET res == findHandlerOptimized(trees["GET"], calls[k].path, "GET",
                                       PoolObj(mapObjs, m, EmptyMap))
       IN /\ mapObjs' = PoolSet(mapObjs, m, res.params)
          /\ calls' = [calls EXCEPT ![k] =
                 IF res.found
                 THEN [@ EXCEPT !.pc = "chain", !.ctx = x, !.params = m]
                 ELSE [@ EXCEPT !.pc = "unwind", !.ctx = x, !.params = m,
                                !.w = HttpError(@, "404 Not Found", 404)]]
    /\ mapIdle' = mapIdle \ {m}
    /\ ctxObjs' = PoolSet(ctxObjs, x, SetContext(k, k, m, calls[k].query))
    /\ ctxIdle' = ctxIdle \ {x}
    /\ UNCHANGED <<router, cache, crashed>>

\* lines 460-465 without Timeout in the chain: h(ctx) calls the handler
CallHandler(k) ==
    /\ ~crashed
    /\ calls[k].pc = "chain"
    /\ ~TimeoutInChain
    /\ calls' = [calls EXCEPT ![k].pc = "call", ![k].hpc = "run"]
    /\ UNCHANGED <<router, cache, ctxObjs, ctxIdle, mapObjs, mapIdle, crashed>>

\* Timeout: done := make(chan error, 1); go func() { done <- next(c) }(); select
TimeoutGo(k) ==
    /\ ~crashed
    /\ calls[k].pc = "chain"
    /\ TimeoutInChain
    /\ calls' = [calls EXCEPT ![k].pc = "select", ![k].hpc = "run",
                              ![k].viaTimeout = TRUE]
    /\ UNCHANGED <<router, cache, ctxObjs, ctxIdle, mapObjs, mapIdle, crashed>>

\* the handler: it reads c.Params and c.Query through the *Context it was given
\* and returns c.JSON(200, data); the write goes to c.Response, and a nil
\* c.Response is a nil dereference; the handler's result goes to the caller, or
\* into the buffered channel done, where the send never waits
RunsHandler(k) ==
    /\ ~crashed
    /\ calls[k].hpc = "run"
    /\ LET w == ctxObjs[calls[k].ctx].Response
           saw == ReadContext(calls[k].ctx)
           live == calls[k].pc \in {"call", "select"}
       IN IF w = 0
          THEN /\ calls' = [calls EXCEPT ![k].hpc = "panic", ![k].saw = saw,
                                         ![k].live = live]
               /\ crashed' = TRUE
          ELSE /\ calls' = [calls EXCEPT ![w].w = JSON(@, 200, <<"q", saw.query>>),
                                         ![k].hpc = "done", ![k].saw = saw,
                                         ![k].live = live, ![k].wroteTo = w]
               /\ UNCHANGED crashed
    /\ UNCHANGED <<router, cache, ctxObjs, ctxIdle, mapObjs, mapIdle>>

\* case <-time.After(timeout): return c.Error(fmt.Errorf("request timeout"), ...)
TimerFires(k) ==
    /\ ~crashed
    /\ calls[k].pc = "select"
    /\ calls' = [calls EXCEPT ![ctxObjs[calls[k].ctx].Response].w =
                                  ContextError(@, "request timeout"),
                              ![k].pc = "unwind", ![k].timedOut = TRUE]
    /\ UNCHANGED <<router, cache, ctxObjs, ctxIdle, mapObjs, mapIdle, crashed>>

\* case err := <-done: return err, and without Timeout the handler's return
HandlerResult(k) ==
    /\ ~crashed
    /\ calls[k].pc \in {"call", "select"}
    /\ calls[k].hpc = "done"
    /\ calls' = [calls EXCEPT ![k].pc = "unwind"]
    /\ UNCHANGED <<router, cache, ctxObjs, ctxIdle, mapObjs, mapIdle, crashed>>

\* ServeHTTP returns and its deferred calls run: putContextToPool(ctx), then the
\* func that empties the parameter map and puts it back
Return(k) ==
    /\ ~crashed
    /\ calls[k].pc = "unwind"
    /\ ctxObjs' = [ctxObjs EXCEPT ![calls[k].ctx] = NilContext]
    /\ ctxIdle' = ctxIdle \cup {calls[k].ctx}
    /\ mapObjs' = [mapObjs EXCEPT ![calls[k].params] = ParamsCleared(@)]
    /\ mapIdle' = mapIdle \cup {calls[k].params}
    /\ calls' = [calls EXCEPT ![k].pc = "done"]
    /\ UNCHANGED <<router, cache, crashed>>

-----------------------------------------------------------------------------
(* Registration *)

\* Router.Handle(method, path, handler): the handler is a new one, named by its
\* place in the order of registration.  The router's configuration is not
\* synchronized, so it is changed only while no request is being served.
Handle(method, path) ==
    /\ UNCHANGED <<apart, notFound, notMethod, metrics>>
    /\ ~served.active
    /\ Len(routes) < MaxRoutes
    /\ trees' = HandleTrees(trees, method, path, Len(routes) + 1)
    /\ routes' = Append(routes, [method |-> method, path |-> path, group |-> 0,
                                 mws |-> Len(middleware)])
    /\ UNCHANGED <<middleware, groups, cache, poolCtx, paramsPool, limiter, mwCache,
                   now, admitted, lastMiss, served>>

\* Router.Use(mw); the model keeps one instance of a middleware with closure state
Use(mw) ==
    /\ UNCHANGED <<apart, notFound, notMethod, metrics>>
    /\ ~served.active
    /\ Len(middleware) < 1 + MaxMw
    /\ mw \in {"RateLimit", "Cache"} => \A i \in 1..Len(middleware) : middleware[i] # mw
    /\ middleware' = Append(middleware, mw)
    /\ UNCHANGED <<trees, groups, cache, poolCtx, paramsPool, limiter, mwCache, now,
                   routes, admitted, lastMiss, served>>

\* Router.Group(prefix)
Group(prefix) ==
    /\ UNCHANGED <<apart, notFound, notMethod, metrics>>
    /\ ~served.active
    /\ Len(groups) < 1
    /\ groups' = Append(groups, [prefix |-> prefix, middleware |-> <<>>])
    /\ UNCHANGED <<trees, middleware, cache, poolCtx, paramsPool, limiter, mwCache,
                   now, routes, admitted, lastMiss, served>>

\* Group.Use(mw)
GroupUse(g, mw) ==
    /\ UNCHANGED <<apart, notFound, notMethod, metrics>>
    /\ ~served.active
    /\ g \in 1..Len(groups)
    /\ Len(groups[g].middleware) < 1
    /\ groups' = [groups EXCEPT ![g].middleware = Append(@, mw)]
    /\ UNCHANGED <<trees, middleware, cache, poolCtx, paramsPool, limiter, mwCache,
                   now, routes, admitted, lastMiss, served>>

\* Group.GET/POST/...(path, handler): g.router.Handle(method, g.prefix+path, handler)
GroupHandle(g, method, path) ==
    /\ UNCHANGED <<apart, notFound, notMethod, metrics>>
    /\ ~served.active
    /\ g \in 1..Len(groups)
    /\ Len(routes) < MaxRoutes
    /\ trees' = HandleTrees(trees, method, groups[g].prefix \o path, Len(routes) + 1)
    /\ routes' = Append(routes, [method |-> method, path |-> groups[g].prefix \o path,
                                 group |-> g, mws |-> Len(middleware)])
    /\ UNCHANGED <<middleware, groups, cache, poolCtx, paramsPool, limiter, mwCache,
                   now, admitted, lastMiss, served>>

\* a goroutine that has not started
NoProc == [pc |-> "idle"]

\* no mutex is held
NoLocks == [w |-> 0, r |-> {}]

\* Router.NotFound(handler)
NotFound(handler) ==
    /\ ~served.active
    /\ notFound # handler
    /\ notFound' = handler
    /\ UNCHANGED <<apart, trees, middleware, groups, cache, poolCtx, paramsPool,
                   limiter, mwCache, now, routes, admitted, lastMiss, served,
                   notMethod, metrics>>

\* Router.MethodNotAllowed(handler)
MethodNotAllowed(handler) ==
    /\ ~served.active
    /\ notMethod # handler
    /\ notMethod' = handler
    /\ UNCHANGED <<apart, trees, middleware, groups, cache, poolCtx, paramsPool,
                   limiter, mwCache, now, routes, admitted, lastMiss, served,
                   notFound, metrics>>

-----------------------------------------------------------------------------
(* Specifications *)

\* routix.New(): no tries, Logger installed, everything else empty
Init ==
    /\ trees = EmptyMap
    /\ middleware = <<"Logger">>
    /\ groups = <<>>
    /\ cache = EmptyMap
    /\ poolCtx = 0
    /\ paramsPool = <<>>
    /\ limiter = EmptyMap
    /\ mwCache = EmptyMap
    /\ now = 0
    /\ routes = <<>>
    /\ admitted = EmptyMap
    /\ lastMiss = EmptyMap
    /\ served = Idle
    /\ calls = [k \in 1..MaxCalls |-> NoCall]
    /\ ctxObjs = <<>>
    /\ ctxIdle = {}
    /\ mapObjs = <<>>
    /\ mapIdle = {}
    /\ crashed = FALSE
    /\ notFound = "default"
    /\ notMethod = "default"
    /\ metrics = NoMetrics
    /\ procs = [k \in 1..MaxCalls |-> NoProc]
    /\ locks = NoLocks

\* the routes registered when the claims are about routing: static, parameter
\* and wildcard patterns that share nodes, under two methods
RouteInputs ==
    ({"GET"} \X { <<"/">>,
                  <<"/", "a", "/", "b">>,
                  <<"/", "a", "/", ":", "i">>,
                  <<"/", "*">> })
    \cup
    ({"POST"} \X { <<"/", "a", "/", ":", "i">> })

Segs == {<<>>} \cup {<<ch>> : ch \in Char \ {"/"}}

\* the path made of the segments segs, a slash before each
RECURSIVE Join(_)
Join(segs) == IF segs = <<>> THEN <<>> ELSE Slash \o Head(segs) \o Join(Tail(segs))

\* the request paths: "/" and every path of at most MaxSegs segments
ReqPaths == {Slash} \cup UNION {{Join(ss) : ss \in [1..n -> Segs]} : n \in 1..MaxSegs}

\* a handler that answers 200 at once
OkOut ==
    [code |-> 200, body |-> "ok", err |-> "nil", dur |-> 0, cache |-> FALSE,
     partial |-> FALSE]

Next ==
    \/ \E r \in RouteInputs : Handle(r[1], r[2])
    \/ \E m \in Methods, p \in ReqPaths : ServeHTTP(m, p, <<>>, "c1", OkOut)
    \/ Finish

Spec == Init /\ [][Next]_vars

-----------------------------------------------------------------------------
(* Routing claims, checked under Spec *)

\* the non-empty segments of a path or pattern
Segments(path) == SelectSeq(Split(path), LAMBDA x : x # <<>>)

IsParamSeg(seg) == seg # <<>> /\ seg[1] = ":"
IsWildSeg(seg) == seg = <<"*">>
IsLiteralSeg(seg) == seg # <<>> /\ ~IsParamSeg(seg) /\ ~IsWildSeg(seg)

\* "/" or a sequence of non-empty literal segments
IsStaticPattern(p) ==
    \/ p = Slash
    \/ /\ Len(p) > 1
       /\ p[1] = "/"
       /\ \A i \in 1..Len(Tail(Split(p))) : IsLiteralSeg(Tail(Split(p))[i])

\* the last route registered for (m, p), 0 when there is none
LastRoute(m, p) ==
    LET is == {i \in 1..Len(routes) : routes[i].method = m /\ routes[i].path = p}
    IN IF is = {} THEN 0 ELSE CHOOSE i \in is : \A j \in is : j <= i

\* a pattern serves a path: literal segments equal, a parameter segment takes any
\* one segment, a wildcard takes the rest
RECURSIVE SegsMatch(_, _)
SegsMatch(pat, segs) ==
    IF pat = <<>> THEN segs = <<>>
    ELSE IF IsWildSeg(Head(pat)) THEN segs # <<>>
    ELSE IF segs = <<>> THEN FALSE
    ELSE /\ (IsParamSeg(Head(pat)) \/ Head(pat) = Head(segs))
         /\ SegsMatch(Tail(pat), Tail(segs))

Serves(pattern, path) == SegsMatch(Segments(pattern), Segments(path))

\* the number of times the route's handler ran for the request in flight
HandlerRuns == Len(SelectSeq(served.log, LAMBDA e : e[1] = "H"))

\* C1: a request for a registered static route (m, p) is answered by the last
\* handler registered for (m, p), called once; a request for p under a method
\* whose routes do not serve p calls no handler and is answered by the not-found
\* or the method-not-allowed handler.
C1_StaticRouting ==
    served.active =>
        /\ (IsStaticPattern(served.path) /\ LastRoute(served.method, served.path) # 0)
              => /\ served.by = "route"
                 /\ served.invoked = LastRoute(served.method, served.path)
                 /\ served.log = <<<<"Logger", "before">>,
                                   <<"H", LastRoute(served.method, served.path)>>,
                                   <<"Logger", "after">>>>
        /\ (/\ \E i \in 1..Len(routes) :
                   /\ routes[i].path = served.path
                   /\ IsStaticPattern(routes[i].path)
                   /\ routes[i].method # served.method
            /\ \A i \in 1..Len(routes) :
                   routes[i].method = served.method => ~Serves(routes[i].path, served.path))
              => /\ served.by \in {"notFound", "notMethod"}
                 /\ served.invoked = NilHandler
                 /\ served.w.code = IF served.by = "notFound" THEN 404 ELSE 405

\* C1: a static route registered twice under the same method was requested and
\* the second handler answered
C1_Witness ==
    /\ served.active
    /\ IsStaticPattern(served.path)
    /\ Len(Segments(served.path)) = 2
    /\ LastRoute(served.method, served.path) = 2
    /\ routes[1].method = routes[2].method
    /\ routes[1].path = routes[2].path
    /\ served.invoked = 2

\* the request in flight was resolved to a route whose pattern has a parameter
\* segment at place k
ParamPlaces(pattern) ==
    {k \in 1..Len(Segments(pattern)) : IsParamSeg(Segments(pattern)[k])}

\* C2: whenever a handler is returned after descending through a parameter
\* child registered as :name, the parameters the handler sees bind name to the
\* request's segment at that level, for every segment value.
C2_ParamBound ==
    (served.active /\ served.by = "route") =>
        LET pat == Segments(routes[served.handler].path)
            segs == Segments(served.path)
        IN \A k \in ParamPlaces(routes[served.handler].path) :
               /\ Tail(pat[k]) \in DOMAIN served.seen
               /\ served.seen[Tail(pat[k])] = segs[k]

\* the resolution as section 4.1 tells it: a literal key first, then the
\* parameter child, then the wildcard child; wild is the offset at which the
\* wildcard child was taken, -1 when it was not
StaticChild(tree, current, part) ==
    Append(current, part) \in DOMAIN tree /\ ~tree[Append(current, part)].wildcard

RECURSIVE ToldWalk(_, _, _, _)
ToldWalk(tree, path, current, start) ==
    IF start >= Len(path) THEN [node |-> current, wild |-> -1, miss |-> FALSE]
    ELSE
        LET end == SegEnd(path, start)
            part == Slice(path, start, end)
        IN IF start = end THEN ToldWalk(tree, path, current, start + 1)
           ELSE IF StaticChild(tree, current, part)
           THEN ToldWalk(tree, path, Append(current, part), end + 1)
           ELSE IF Append(current, ParamKey) \in DOMAIN tree
           THEN ToldWalk(tree, path, Append(current, ParamKey), end + 1)
           ELSE IF Append(current, WildKey) \in DOMAIN tree
           THEN [node |-> Append(current, WildKey), wild |-> start, miss |-> FALSE]
           ELSE [node |-> current, wild |-> -1, miss |-> TRUE]

\* C3: when a segment matches neither a static child nor a parameter child and
\* the node has a wildcard child, "*" is bound to the whole rest of the path from
\* that segment on, the walk stops, and the wildcard node's handler is returned.
C3_WildcardCapture ==
    (served.active /\ served.method \in DOMAIN trees /\ served.path # Slash) =>
        LET tree == trees[served.method]
            told == ToldWalk(tree, served.path, RootNode, 1)
        IN (told.wild >= 0 /\ served.method \in DOMAIN tree[told.node].handlers) =>
               /\ served.by = "route"
               /\ served.handler = tree[told.node].handlers[served.method]
               /\ WildKey \in DOMAIN served.seen
               /\ served.seen[WildKey] = From(served.path, told.wild)

\* the node reached from the root through static children only, one for each
\* non-empty segment; RootNode when a segment has no static child
RECURSIVE StaticNode(_, _, _)
StaticNode(tree, current, segs) ==
    IF segs = <<>> THEN [ok |-> TRUE, node |-> current]
    ELSE IF StaticChild(tree, current, Head(segs))
    THEN StaticNode(tree, Append(current, Head(segs)), Tail(segs))
    ELSE [ok |-> FALSE, node |-> RootNode]

\* C4: where a static child exists for the request's segment, the walk takes it
\* although the node has a parameter child too: a path for which static children
\* exist all the way is decided by the node they lead to, and captures nothing.
C4_StaticFirst ==
    (served.active /\ served.method \in DOMAIN trees) =>
        LET tree == trees[served.method]
            sn == StaticNode(tree, RootNode, Segments(served.path))
        IN sn.ok =>
               /\ served.params = EmptyMap
               /\ IF served.method \in DOMAIN tree[sn.node].handlers
                  THEN /\ served.by = "route"
                       /\ served.handler = tree[sn.node].handlers[served.method]
                       /\ served.seen = EmptyMap
                  ELSE served.by = "notFound"

\* C4: /a/:i was registered before /a/b and after it in other runs; here the
\* parameter route came first and /a/b is answered by the static route
C4_Witness ==
    /\ served.active
    /\ Len(routes) = 2
    /\ routes[1].path = <<"/", "a", "/", ":", "i">>
    /\ routes[2].path = <<"/", "a", "/", "b">>
    /\ routes[1].method = served.method
    /\ routes[2].method = served.method
    /\ served.path = <<"/", "a", "/", "b">>
    /\ served.handler = 2
    /\ served.seen = EmptyMap

-----------------------------------------------------------------------------
(* The middleware chain and route groups: SpecMw *)

\* what the route's handler may do: answer, or return an error
ErrOuts ==
    { [code |-> 404, body |-> "", err |-> "routix", dur |-> 0, cache |-> FALSE,
       partial |-> FALSE],
      [code |-> 0, body |-> "", err |-> "boom", dur |-> 0, cache |-> FALSE,
       partial |-> FALSE] }

\* the handler returns an error after it has written a 200 header, as
\* "return c.JSON(200, data)" does when the encoding of data fails
PartialOuts == { [o EXCEPT !.partial = TRUE] : o \in ErrOuts }

MwPaths == { <<"/", "a">>, <<"/", "a", "/", "b">> }

\* the middleware of name mw is in the chain mws
Installed(mws, mw) == \E i \in 1..Len(mws) : mws[i] = mw

NextMw ==
    \/ \E mw \in {"A", "B"} : ~Installed(middleware, mw) /\ Use(mw)
    \/ Group(<<"/", "a">>)
    \/ GroupUse(1, "G")
    \/ GroupHandle(1, "GET", <<"/", "b">>)
    \/ Handle("GET", <<"/", "a">>)
    \/ \E p \in MwPaths, out \in {OkOut} \cup ErrOuts \cup PartialOuts :
           ServeHTTP("GET", p, <<>>, "c1", out)
    \/ Finish

SpecMw == Init /\ [][NextMw]_vars

\* the log the onion model tells for the middleware mw around handler h
RECURSIVE Befores(_)
Befores(mw) ==
    IF mw = <<>> THEN <<>> ELSE <<<<Head(mw), "before">>>> \o Befores(Tail(mw))

RECURSIVE Afters(_)
Afters(mw) ==
    IF mw = <<>> THEN <<>> ELSE Afters(Tail(mw)) \o <<<<Head(mw), "after">>>>

\* C5: for the global middleware mw[0..n-1] and a matched handler H the log is
\* the before-parts in order 0..n-1, then H, then the after-parts in order
\* n-1..0, whether Use was called before or after the route was registered.
C5_OnionOrder ==
    (served.active /\ served.by = "route") =>
        served.log = Befores(middleware) \o <<<<"H", served.handler>>>>
                     \o Afters(middleware)

\* C5: A then B were added after the route was registered, and the request ran
\* Logger, A, B before the handler and B, A, Logger after it
C5_Witness ==
    /\ served.active
    /\ served.by = "route"
    /\ middleware = <<"Logger", "A", "B">>
    /\ routes[served.handler].mws = 1
    /\ served.log = << <<"Logger", "before">>, <<"A", "before">>, <<"B", "before">>,
                       <<"H", served.handler>>,
                       <<"B", "after">>, <<"A", "after">>, <<"Logger", "after">> >>

\* the places of the events of middleware mw and of the handler in a log
Place(log, e) == {i \in 1..Len(log) : log[i] = e}

\* C10: a middleware added with Group.Use runs around the handler of every route
\* registered through the group, inside the global middleware, and does not run
\* for routes registered outside the group.
C10_GroupMiddleware ==
    (served.active /\ served.by = "route") =>
        LET g == routes[served.handler].group
            h == <<"H", served.handler>>
        IN IF g = 0
           THEN \A i \in 1..Len(served.log) : served.log[i][1] # "G"
           ELSE \A k \in 1..Len(groups[g].middleware) :
                    LET mw == groups[g].middleware[k] IN
                    \E b \in Place(served.log, <<mw, "before">>),
                       a \in Place(served.log, <<mw, "after">>),
                       x \in Place(served.log, h) :
                        /\ b < x /\ x < a
                        /\ \A i \in 1..Len(middleware) :
                               \E gb \in Place(served.log, <<middleware[i], "before">>),
                                  ga \in Place(served.log, <<middleware[i], "after">>) :
                                   gb < b /\ a < ga

\* C11: every request that is not served from the cache passes through each
\* middleware added with Router.Use, whether a route matched, the path was not
\* found, or the method has no routes.
C11_GlobalWrapsEvery ==
    (served.active /\ served.by # "cache") =>
        \A i \in 1..Len(middleware) :
            /\ Place(served.log, <<middleware[i], "before">>) # {}
            /\ Place(served.log, <<middleware[i], "after">>) # {}

\* C15 as claimed: when the chain returns an error to ServeHTTP, the status of
\* the response is the error's Code for an *Error and 500 for any other error.
C15_StatusAsClaimed ==
    (served.active /\ served.by = "route" /\ served.err \notin {"nil", "panic"}) =>
        served.w.code = IF served.err = "routix" THEN served.ret.code ELSE 500

\* C15 amended: when the chain returns an error to ServeHTTP and no status was
\* written to the response before, the status is the error's Code for an *Error
\* and 500 for any other error; a status written before stays.
C15_ErrorSurface ==
    (served.active /\ served.by = "route" /\ served.err \notin {"nil", "panic"}) =>
        /\ served.err = served.ret.err
        /\ served.w.code = IF served.cw.wrote THEN served.cw.code
                           ELSE IF served.err = "routix" THEN served.ret.code
                           ELSE 500
        /\ Len(served.w.body) = Len(served.cw.body) + 1

\* C15: a handler returned an *Error with Code 404 having written nothing, and
\* the response is a 404 with a JSON body
C15_Witness ==
    /\ served.active
    /\ served.by = "route"
    /\ served.err = "routix"
    /\ ~served.cw.wrote
    /\ served.w.code = 404
    /\ served.w.hdr["Content-Type"] = "application/json"

-----------------------------------------------------------------------------
(* The RateLimit middleware: SpecRL *)

\* client c1 sends any number of requests, client c2 one that is admitted
NextRL ==
    \/ Use("RateLimit")
    \/ routes = <<>> /\ Handle("GET", <<"/", "a">>)
    \/ ServeHTTP("GET", <<"/", "a">>, <<>>, "c1", OkOut)
    \/ StampsOf(admitted, "c2") = <<>> /\ ServeHTTP("GET", <<"/", "a">>, <<>>, "c2", OkOut)
    \/ Tick
    \/ Finish

SpecRL == Init /\ [][NextRL]_vars

\* the admitted requests of the client in flight that are less than Window old
RecentAdmitted ==
    Len(SelectSeq(served.admBefore, LAMBDA t : served.t0 - t < Window))

\* C8: a request reaches next if and only if fewer than N earlier admitted
\* requests of its client are less than d old; otherwise it is rejected without
\* next being called, and a rejected request leaves no timestamp.
C8_RateLimitBound ==
    (served.active /\ served.rl # "none") =>
        /\ served.rl = "pass" <=> RecentAdmitted < Requests
        /\ served.rl = "pass" =>
               /\ served.invoked # NilHandler
               /\ admitted[served.ip] = Append(served.admBefore, served.t0)
        /\ served.rl = "reject" =>
               /\ served.invoked = NilHandler
               /\ StampsOf(admitted, served.ip) = served.admBefore
               /\ StampsOf(limiter, served.ip)
                      = SelectSeq(served.admBefore, LAMBDA t : served.t0 - t < Window)

\* C8: the request after N admitted ones inside the window is rejected, and an
\* earlier request of the client had been rejected too without being counted
C8_Witness ==
    /\ served.active
    /\ served.rl = "reject"
    /\ RecentAdmitted = Requests
    /\ Len(served.admBefore) > Requests

\* C9: a request rejected by RateLimit receives status 429 with a structured
\* error body.
C9_Rejected429 ==
    (served.active /\ served.rl = "reject") =>
        /\ served.w.code = 429
        /\ Len(served.w.body) = 1
        /\ served.w.body[1][1] = "json"

-----------------------------------------------------------------------------
(* The Cache middleware: SpecCache *)

Queries == { <<>>, <<"x">> }

\* the handler answers 200 at once, or 404 after some time, or returns an error
\* after it has written a header
CacheOuts ==
    { [code |-> 200, body |-> "v1", err |-> "nil", dur |-> 0, cache |-> FALSE,
       partial |-> FALSE],
      [code |-> 404, body |-> "v2", err |-> "nil", dur |-> MaxDur, cache |-> FALSE,
       partial |-> FALSE],
      [code |-> 0, body |-> "", err |-> "boom", dur |-> 0, cache |-> FALSE,
       partial |-> TRUE] }

\* a route is registered for method m
Routed(m) == \E i \in 1..Len(routes) : routes[i].method = m

NextCache ==
    \/ Use("Cache")
    \/ \E m \in Methods : ~Routed(m) /\ Handle(m, <<"/", "a">>)
    \/ \E m \in Methods, q \in Queries, out \in CacheOuts :
           now + out.dur <= MaxTime /\ ServeHTTP(m, <<"/", "a">>, q, "c1", out)
    \/ Tick
    \/ Finish

SpecCache == Init /\ [][NextCache]_vars

\* C6 as claimed: of two GET requests for one URL issued one after the other,
\* the second within ttl of the first, the handler is called exactly once, and
\* the status, headers and body written for the second equal those written for
\* the first.
C6_IdempotentAsClaimed ==
    (served.active /\ served.method = "GET" /\ served.prevMiss.has
        /\ served.t0 < served.prevMiss.t0 + Ttl) =>
        /\ served.prevMiss.runs + HandlerRuns = 1
        /\ served.w.code = served.prevMiss.w.code
        /\ served.w.hdr = served.prevMiss.w.hdr
        /\ served.w.body = served.prevMiss.w.body

\* C6 amended: when the handler returned nil for the first of the two GET
\* requests, and the second arrives within ttl of the first one's response being
\* stored, the handler is called exactly once (for the first), the second is a
\* hit, and its status, headers and body equal those written for the first.
C6_CacheIdempotent ==
    (served.active /\ served.method = "GET" /\ served.prevMiss.has
        /\ served.prevMiss.err = "nil"
        /\ served.t0 < served.prevMiss.at + Ttl) =>
        /\ served.ch = "hit"
        /\ served.invoked = NilHandler
        /\ served.prevMiss.runs + HandlerRuns = 1
        /\ served.w.code = served.prevMiss.w.code
        /\ served.w.hdr = served.prevMiss.w.hdr
        /\ served.w.body = served.prevMiss.w.body

\* C6: a second GET came later than the first, within ttl, and was answered with
\* the first one's 404 response
C6_Witness ==
    /\ served.active
    /\ served.ch = "hit"
    /\ served.prevMiss.has
    /\ served.prevMiss.err = "nil"
    /\ served.t0 > served.prevMiss.at
    /\ served.w.code = 404
    /\ served.w.body = <<<<"json", "v2">>>>

\* the entry for the URL of the request in flight was stored by the last miss
StoredByLastMiss ==
    (served.prevMiss.has /\ served.prevMiss.err = "nil") =>
        served.prevExp = served.prevMiss.at + Ttl

\* C7 as claimed: a hit only strictly before the expiry instant (store time +
\* ttl); a GET at or after it is a miss that calls the handler again and stores
\* a new entry that expires at the new store time + ttl.
C7_ExpiryAsClaimed ==
    (served.active /\ served.ch \in {"hit", "miss"}) =>
        /\ served.ch = "hit" <=> (served.prevExp >= 0 /\ served.t0 < served.prevExp)
        /\ StoredByLastMiss
        /\ served.ch = "miss" =>
               /\ served.invoked # NilHandler
               /\ served.storedAt >= served.t0
               /\ mwCache[URLString(served.path, served.query)].expires
                      = served.storedAt + Ttl

\* C7 amended: as claimed, but the new entry is stored when the handler returns
\* nil; when it returns an error nothing is stored and the map is left as it was.
C7_Expiry ==
    (served.active /\ served.ch \in {"hit", "miss"}) =>
        LET key == URLString(served.path, served.query) IN
        /\ served.ch = "hit" <=> (served.prevExp >= 0 /\ served.t0 < served.prevExp)
        /\ StoredByLastMiss
        /\ served.ch = "miss" =>
               /\ served.invoked # NilHandler
               /\ served.err = "nil" =>
                      /\ served.storedAt >= served.t0
                      /\ mwCache[key].expires = served.storedAt + Ttl
               /\ served.err # "nil" =>
                      /\ served.storedAt = -1
                      /\ IF served.prevExp >= 0
                         THEN key \in DOMAIN mwCache /\ mwCache[key].expires = served.prevExp
                         ELSE key \notin DOMAIN mwCache

\* C7: a GET arrived exactly at the expiry instant of the stored entry, missed,
\* and stored a new entry after a handler that took time
C7_Witness ==
    /\ served.active
    /\ served.ch = "miss"
    /\ served.prevMiss.has
    /\ served.prevMiss.err = "nil"
    /\ served.t0 = served.prevExp
    /\ served.storedAt > served.t0
    /\ mwCache[URLString(served.path, served.query)].expires = served.storedAt + Ttl

\* C14: when the handler wrapped by the Cache middleware returns an error on a
\* miss, the cache map is left as it was, the Cache middleware writes nothing to
\* the real response (what the client gets is what the error boundary writes on
\* an untouched writer), and the handler's error is the one ServeHTTP receives.
C14_NoStoreOnError ==
    [][(~served.active /\ served'.active /\ served'.ch = "miss"
           /\ served'.ret.err # "nil") =>
          /\ mwCache' = mwCache
          /\ served'.storedAt = -1
          /\ served'.err = served'.ret.err
          /\ served'.w = ErrorBoundary(NewWriter, served'.ret.err, served'.ret.code)]_vars

\* C14: the handler wrote a header to the recorder and returned an error while an
\* expired entry was in the map; the entry stayed and the client got the 500
C14_Witness ==
    /\ served.active
    /\ served.ch = "miss"
    /\ served.ret.err = "boom"
    /\ served.prevExp >= 0
    /\ mwCache[URLString(served.path, served.query)].expires = served.prevExp
    /\ served.w.code = 500

-----------------------------------------------------------------------------
(* The dispatcher's cache, Context.Cache and Router.CacheResponse: SpecDC *)

\* the handler answers 200, having called c.Cache(Ttl) first or not
DCOuts ==
    { [code |-> 200, body |-> "v1", err |-> "nil", dur |-> 0, cache |-> k,
       partial |-> FALSE] : k \in BOOLEAN }

\* what the request's context holds for Context.Cache
Vals == {"none", "ok", "err"}

NextDC ==
    \/ routes = <<>> /\ Handle("GET", <<"/", "a">>)
    \/ \E q \in Queries, vals \in Vals, out \in DCOuts :
           ServeHTTPCtx("GET", <<"/", "a">>, q, "c1", vals, out)
    \/ \E m \in Methods : ServeHTTP(m, <<"/", "b">>, <<>>, "c1", OkOut)
    \/ Tick
    \/ Finish

SpecDC == Init /\ [][NextDC]_vars

\* C12: the dispatcher's probe and Context.Cache key the entries by path plus
\* query, so a GET is never answered from an entry that a request with the same
\* path and another query stored: the cached answer is the one recorded for the
\* query of the request in flight.
C12_KeyIsFullURL ==
    (served.active /\ served.by = "cache") =>
        served.w.body = InnerResponse([query |-> served.query]).body

\* C13: on a hit of the dispatcher's cache ServeHTTP writes the stored headers,
\* status and body and nothing else; it resolves nothing, takes no Context and
\* no parameter map, and runs no middleware and no handler.
C13_HitShortCircuit ==
    [][(~served.active /\ served'.active /\ served'.by = "cache") =>
          /\ served'.method = "GET"
          /\ served'.path \in DOMAIN cache
          /\ served'.w.hdr = cache[served'.path].headers
          /\ served'.w.code = cache[served'.path].code
          /\ served'.w.body = cache[served'.path].response
          /\ served'.log = <<>>
          /\ served'.invoked = NilHandler
          /\ served'.handler = NilHandler
          /\ served'.acquired = 0
          /\ UNCHANGED <<poolCtx, paramsPool, cache, limiter, mwCache, now>>]_vars

\* C13: a GET was answered from the dispatcher's cache after the time moved on
C13_Witness ==
    /\ served.active
    /\ served.by = "cache"
    /\ served.t0 > 0
    /\ served.w.code = 200
    /\ served.w.hdr # EmptyMap
    /\ served.log = <<>>

\* C16: a GET handler on a router made by New() that calls c.Cache(d) and then
\* writes its response completes normally, and the response is stored under the
\* path in the router's cache for d.
C16_ReadmeCache ==
    (served.active /\ served.by = "route" /\ served.vals = "none"
        /\ served.cc # "none") =>
        /\ served.err = "nil"
        /\ served.w.code = 200
        /\ served.path \in DOMAIN cache
        /\ cache[served.path].expires = served.t0 + Ttl

\* C19: every ServeHTTP call returns to the pools what it took from them: a call
\* that took a Context with getContextFromPool has released it with
\* putContextToPool when it returns, on every exit path, panics included.
C19_AcquireReleaseSymmetry ==
    served.active => served.released = served.acquired

-----------------------------------------------------------------------------
(* The pooled objects and the Timeout middleware: SpecLife *)

\* GET /a/a?x binds a parameter and has a query, GET / has neither
LifeRequests ==
    { [path |-> <<"/", "a", "/", "a">>, query |-> <<"x">>],
      [path |-> <<"/">>, query |-> <<>>] }

\* routes and middleware are set up before the server starts; the requests come
\* one after the other, and a handler left behind by Timeout runs on beside the
\* calls that follow
NoCallBegun == \A k \in 1..MaxCalls : calls[k].pc = "idle"

NextLife ==
    \/ routes = <<>> /\ NoCallBegun /\ Handle("GET", <<"/", "a", "/", ":", "i">>)
    \/ Len(routes) = 1 /\ NoCallBegun /\ Handle("GET", <<"/">>)
    \/ ~TimeoutInChain /\ NoCallBegun /\ Use("Timeout")
    \/ /\ \A j \in 1..MaxCalls : ~InFlight(j)
       /\ \E k \in 1..MaxCalls, r \in LifeRequests : Arrive(k, r.path, r.query)
    \/ \E k \in 1..MaxCalls, x \in 1..MaxCalls : NoTree(k, x)
    \/ \E k \in 1..MaxCalls, m \in 1..MaxCalls, x \in 1..MaxCalls : Acquire(k, m, x)
    \/ \E k \in 1..MaxCalls : CallHandler(k)
    \/ \E k \in 1..MaxCalls : TimeoutGo(k)
    \/ \E k \in 1..MaxCalls : RunsHandler(k)
    \/ \E k \in 1..MaxCalls : TimerFires(k)
    \/ \E k \in 1..MaxCalls : HandlerResult(k)
    \/ \E k \in 1..MaxCalls : Return(k)

SpecLife == Init /\ [][NextLife]_vars

\* the parameters ServeHTTP captures for the path of call k, in a map of its own
OwnParams(k) ==
    findHandlerOptimized(trees["GET"], calls[k].path, "GET", EmptyMap).params

TimeoutAnswered(k) ==
    \E i \in 1..Len(calls[k].w.body) :
        calls[k].w.body[i] = <<"json", <<"error", "request timeout">>>>

\* C18: a call through Timeout(d) that was not timed out returns with the result
\* of its handler; a call whose timer fired first has the timeout error response
\* written and goes on without its handler's result; and the handler left behind
\* is never stopped: it runs to its end, its goroutine does not die in a panic.
C18_TimeoutContract ==
    \A k \in 1..MaxCalls :
        calls[k].viaTimeout =>
            /\ (calls[k].pc \in {"unwind", "done"} /\ ~calls[k].timedOut) =>
                   calls[k].hpc = "done"
            /\ calls[k].timedOut =>
                   /\ calls[k].pc \in {"unwind", "done"}
                   /\ TimeoutAnswered(k)
            /\ calls[k].hpc # "panic"
            /\ ~crashed

\* C20: a Context is in the hands of one request at a time: no handler still
\* running for one call holds the Context that another call in flight has taken
\* from the pool, and what a handler reads and writes through its Context is
\* never the request or the response of another call.
C20_ExclusiveOwnership ==
    /\ \A a \in 1..MaxCalls, b \in 1..MaxCalls :
           (a # b /\ HandlerRunning(a) /\ InFlight(b)) =>
               (calls[b].ctx = 0 \/ calls[b].ctx # calls[a].ctx)
    /\ \A a \in 1..MaxCalls :
           /\ calls[a].saw.request \in {0, a}
           /\ calls[a].wroteTo \in {0, a}

-----------------------------------------------------------------------------
(* Patterns and paths with empty segments, parameter names that meet at one *)
(* node, and branches the walk cannot leave: SpecRt                          *)

\* patterns with a trailing and a doubled slash, two parameter names for the
\* first segment, a static first segment beside them, and a wildcard
RtInputs ==
    { <<"/", "a">>,
      <<"/", "a", "/">>,
      <<"/", "/", "b">>,
      <<"/", ":", "a", "/", "b">>,
      <<"/", ":", "b">>,
      <<"/", "*">> }

NextRt ==
    \/ \E p \in RtInputs : Handle("GET", p)
    \/ \E p \in ReqPaths : ServeHTTP("GET", p, <<>>, "c1", OkOut)
    \/ Finish

SpecRt == Init /\ [][NextRt]_vars

\* the key of the child a pattern segment leads to
PatKey(seg) == IF IsParamSeg(seg) THEN ParamKey ELSE IF IsWildSeg(seg) THEN WildKey ELSE seg

\* the node reached by walking a trie along the non-empty segments of a pattern
TerminalNode(pattern) == [k \in 1..Len(Segments(pattern)) |-> PatKey(Segments(pattern)[k])]

\* the last route registered under method m whose pattern ends at node n
LastAt(m, n) ==
    LET is == {i \in 1..Len(routes) :
                  routes[i].method = m /\ TerminalNode(routes[i].path) = n}
    IN IF is = {} THEN 0 ELSE CHOOSE i \in is : \A j \in is : j <= i

\* C24: after Handle(method, pattern, h), whatever empty segments the pattern
\* has, the node reached along the pattern's non-empty segments holds under the
\* method the handler last registered for that node, and a request whose path is
\* a registered pattern of literal segments is answered by that handler.
C24_TerminalStored ==
    /\ \A i \in 1..Len(routes) :
           LET m == routes[i].method
               n == TerminalNode(routes[i].path)
           IN /\ m \in DOMAIN trees
              /\ n \in DOMAIN trees[m]
              /\ m \in DOMAIN trees[m][n].handlers
              /\ trees[m][n].handlers[m] = LastAt(m, n)
    /\ (/\ served.active
        /\ \E i \in 1..Len(routes) :
               /\ routes[i].method = served.method
               /\ routes[i].path = served.path
               /\ \A k \in 1..Len(Segments(served.path)) :
                      IsLiteralSeg(Segments(served.path)[k]))
          => /\ served.by = "route"
             /\ served.handler = LastAt(served.method, TerminalNode(served.path))

\* the routes under method m whose pattern passes through node n, in the order
\* of registration
RoutesThrough(m, n) ==
    {i \in 1..Len(routes) :
        /\ routes[i].method = m
        /\ Len(TerminalNode(routes[i].path)) >= Len(n)
        /\ SubSeq(TerminalNode(routes[i].path), 1, Len(n)) = n}

\* the parameter name that route i gives the segment at place k
NameAt(i, k) == Tail(Segments(routes[i].path)[k])

\* the name the first, and the last, registration gave the parameter child n
FirstName(m, n) ==
    NameAt(CHOOSE i \in RoutesThrough(m, n) : \A j \in RoutesThrough(m, n) : i <= j,
           Len(n))

LastName(m, n) ==
    NameAt(CHOOSE i \in RoutesThrough(m, n) : \A j \in RoutesThrough(m, n) : j <= i,
           Len(n))

\* the request in flight reached its route through parameter children, and each
\* of their segments is bound under the name that Name(method, node) gives
BoundUnder(Name(_, _)) ==
    LET pat == routes[served.handler].path
        segs == Segments(served.path)
    IN \A k \in ParamPlaces(pat) :
           segs[k] # ParamKey =>
               LET name == Name(served.method, SubSeq(TerminalNode(pat), 1, k))
               IN /\ name \in DOMAIN served.seen
                  /\ served.seen[name] = segs[k]

\* C25 as claimed: when patterns gave different parameter names to one trie
\* position, the later registration replaces the parameter child, and a resolved
\* request has the segment bound under the name registered last.
C25_LastNameWins ==
    (served.active /\ served.by = "route") => BoundUnder(LastName)

\* C25: the parameter child of a node is made by the first pattern that needs
\* it and is kept as it is by the later ones: it holds the name registered
\* first, and a resolved request has the segment bound under that name,
\* whichever of the patterns its route was registered with.
C25_FirstNameWins ==
    /\ \A m \in DOMAIN trees : \A n \in DOMAIN trees[m] :
           (n # RootNode /\ n[Len(n)] = ParamKey /\ RoutesThrough(m, n) # {}) =>
               trees[m][n].params = <<FirstName(m, n)>>
    /\ (served.active /\ served.by = "route") => BoundUnder(FirstName)

\* C25: /:a/b was registered, then /:b; GET /b is answered by the second route
\* and its handler finds the segment under the name a, not under b
C25_Witness ==
    /\ served.active
    /\ served.by = "route"
    /\ Len(routes) = 2
    /\ routes[1].path = <<"/", ":", "a", "/", "b">>
    /\ routes[2].path = <<"/", ":", "b">>
    /\ served.path = <<"/", "b">>
    /\ served.handler = 2
    /\ <<"a">> \in DOMAIN served.seen
    /\ served.seen[<<"a">>] = <<"b">>
    /\ <<"b">> \notin DOMAIN served.seen

\* the one node a walk without return moves to for each segment: the child
\* filed under the segment itself if there is one, else the parameter child,
\* else the wildcard child, where it stops; dead when a segment has none of them
RECURSIVE GreedyNode(_, _, _)
GreedyNode(tree, current, segs) ==
    IF segs = <<>> THEN [dead |-> FALSE, node |-> current]
    ELSE IF Append(current, Head(segs)) \in DOMAIN tree
    THEN GreedyNode(tree, Append(current, Head(segs)), Tail(segs))
    ELSE IF Append(current, ParamKey) \in DOMAIN tree
    THEN GreedyNode(tree, Append(current, ParamKey), Tail(segs))
    ELSE IF Append(current, WildKey) \in DOMAIN tree
    THEN [dead |-> FALSE, node |-> Append(current, WildKey)]
    ELSE [dead |-> TRUE, node |-> current]

\* C27: resolution commits to the child filed under the segment when there is
\* one and never comes back to the parameter or wildcard child of that level: the
\* request is decided by the single node this walk ends on, one step per segment
\* at most, and is answered not-found when that node has no handler or a segment
\* has no child there, also when another registered pattern serves the path.
C27_GreedyNoBacktrack ==
    (served.active /\ served.method \in DOMAIN trees) =>
        LET tree == trees[served.method]
            g == GreedyNode(tree, RootNode, Segments(served.path))
        IN /\ Len(g.node) <= Len(Segments(served.path))
           /\ IF ~g.dead /\ served.method \in DOMAIN tree[g.node].handlers
              THEN /\ served.by = "route"
                   /\ served.handler = tree[g.node].handlers[served.method]
              ELSE served.by = "notFound"

\* C27: /a and /:a/b are registered; GET /a/b took the static child a, found no
\* child b under it and was answered not-found, although /:a/b serves the path
C27_Witness ==
    /\ served.active
    /\ served.by = "notFound"
    /\ served.path = <<"/", "a", "/", "b">>
    /\ \E i \in 1..Len(routes) : routes[i].path = <<"/", "a">>
    /\ \E i \in 1..Len(routes) :
           /\ routes[i].path = <<"/", ":", "a", "/", "b">>
           /\ routes[i].method = served.method
           /\ Serves(routes[i].path, served.path)

\* the path with a slash added at the end, and with one of its slashes doubled
SlashVariants(path) ==
    {path \o Slash}
    \cup {SubSeq(path, 1, i) \o Slash \o SubSeq(path, i + 1, Len(path)) :
             i \in {j \in 1..Len(path) : path[j] = "/"}}

\* the route, the found-flag and the named parameters of a resolution are those
\* of the request in flight, and both captured a rest or neither did
AgreesOnNames(r) ==
    /\ r.found = (served.by = "route")
    /\ r.handler = served.handler
    /\ DOMAIN r.params = DOMAIN served.params
    /\ \A k \in DOMAIN r.params \ {WildKey} : r.params[k] = served.params[k]

\* C30 as claimed: the path of the request in flight and each of its variants
\* with a trailing or a doubled slash resolve to the same handler, found-flag and
\* captured parameters.
C30_SameResolution ==
    (served.active /\ served.method \in DOMAIN trees) =>
        \A v \in SlashVariants(served.path) :
            LET r == findHandlerOptimized(trees[served.method], v, served.method,
                                          EmptyMap)
            IN /\ AgreesOnNames(r)
               /\ r.params = served.params

\* C30: the path of the request in flight and each of its variants with a
\* trailing or a doubled slash resolve to the same handler and found-flag and
\* bind the same values to the same parameter names; a wildcard is captured by
\* both or by neither, its value being the raw rest of each path.
C30_ModuloEmptySegments ==
    (served.active /\ served.method \in DOMAIN trees) =>
        \A v \in SlashVariants(served.path) :
            AgreesOnNames(findHandlerOptimized(trees[served.method], v, served.method,
                                               EmptyMap))

\* C30: GET /a was resolved through a parameter child, and //a and /a/ bind the
\* same value to the same name
C30_Witness ==
    /\ served.active
    /\ served.by = "route"
    /\ served.path = <<"/", "a">>
    /\ served.params # EmptyMap
    /\ WildKey \notin DOMAIN served.params
    /\ findHandlerOptimized(trees["GET"], <<"/", "/", "a">>, "GET", EmptyMap).params
           = served.params
    /\ findHandlerOptimized(trees["GET"], <<"/", "a", "/">>, "GET", EmptyMap).params
           = served.params

-----------------------------------------------------------------------------
(* Errors and panics on their way out: Recovery, PerformanceMonitor and the  *)
(* handlers given to Router.NotFound and Router.MethodNotAllowed: SpecErr     *)

\* the route's handler answers, returns a *Error, or panics
PanicOut ==
    [code |-> 0, body |-> "", err |-> "panic", dur |-> 0, cache |-> FALSE,
     partial |-> FALSE]

FaultOuts ==
    { OkOut,
      [code |-> 404, body |-> "", err |-> "routix", dur |-> 0, cache |-> FALSE,
       partial |-> FALSE],
      PanicOut }

\* GET /a is the route; GET /b has no route, POST has no tree
ErrPaths == { <<"/", "a">>, <<"/", "b">> }

NextErr ==
    \/ routes = <<>> /\ Handle("GET", <<"/", "a">>)
    \/ \E mw \in {"Recovery", "PerformanceMonitor"} :
           (\A i \in 1..Len(middleware) : middleware[i] # mw) /\ Use(mw)
    \/ NotFound("error")
    \/ MethodNotAllowed("error")
    \/ /\ metrics.entered < MaxCalls
       /\ \E p \in ErrPaths, out \in FaultOuts : ServeHTTP("GET", p, <<>>, "c1", out)
    \/ ServeHTTP("POST", <<"/", "a">>, <<>>, "c1", OkOut)
    \/ Finish

SpecErr == Init /\ [][NextErr]_vars

\* C23: whenever a handler the dispatcher invoked (the chain around the route's
\* handler, the not-found handler, the method-not-allowed handler) returned an
\* error to it, the response is what the error boundary makes of that error on
\* top of what was written before.
C23_NoDroppedError ==
    (served.active /\ served.err \notin {"nil", "panic"}) =>
        /\ served.w.wrote
        /\ served.w = ErrorBoundary(served.cw, served.err, served.ret.code)

\* a middleware named mw is installed outside (before) one named inner
Outside(mw, inner) ==
    \E i \in 1..Len(middleware), j \in 1..Len(middleware) :
        i < j /\ middleware[i] = mw /\ middleware[j] = inner

\* C26: when the handler under Recovery panicked, the panic stops at Recovery,
\* the response has status 500, and Recovery returns an error: the dispatcher
\* gets a non-nil error, and a PerformanceMonitor outside Recovery counts the
\* request as an error.
C26_RecoveryReturnsError ==
    (served.active /\ served.recovered) =>
        /\ served.w.code = 500
        /\ served.err \notin {"nil", "panic"}
        /\ Outside("PerformanceMonitor", "Recovery") => metrics.ErrorCount > 0

\* C22: ActiveRequests is never negative and is the number of requests inside a
\* PerformanceMonitor wrapper; when all of them have left it, by a return or by a
\* panic, it is 0 and RequestCount is the number of requests that left.
C22_ActiveGauge ==
    /\ metrics.ActiveRequests >= 0
    /\ metrics.ActiveRequests = metrics.entered - metrics.left
    /\ metrics.entered = metrics.left =>
           /\ metrics.ActiveRequests = 0
           /\ metrics.RequestCount = metrics.left

-----------------------------------------------------------------------------
(* RateLimit statement by statement, run by concurrent goroutines: SpecRLc.  *)
(* procs[k] is the goroutine of request k inside the function RateLimit       *)
(* returns; all requests come from client c1. The function takes no lock.    *)

\* what the RateLimit steps leave alone
besideLimiter ==
    <<trees, middleware, groups, cache, poolCtx, paramsPool, mwCache, now, routes,
      lastMiss, served, calls, ctxObjs, ctxIdle, mapObjs, mapIdle, notFound,
      notMethod, metrics, locks>>

\* the statements that read or write limiter[ip]
TableSteps == {"clean", "store", "check", "append"}

\* the statements that write limiter[ip]
TableWrites == {"store", "append"}

\* goroutine k has read the table and has not yet done its last access to it
InTable(k) == procs[k].pc \in {"store", "check", "append"}

\* ip := c.Request.RemoteAddr; now := time.Now()
RLEnter(k) ==
    /\ ~crashed
    /\ procs[k].pc = "idle"
    /\ Installed(middleware, "RateLimit")
    /\ procs' = [procs EXCEPT ![k] = [pc |-> "clean", ip |-> "c1", now |-> now,
                                      valid |-> <<>>]]
    /\ UNCHANGED <<besideLimiter, limiter, admitted, crashed>>

\* for _, t := range limiter[ip] { if now.Sub(t) < duration { valid = append(valid, t) } }
RLClean(k) ==
    /\ ~crashed
    /\ procs[k].pc = "clean"
    /\ procs' = [procs EXCEPT ![k].pc = "store",
                              ![k].valid = ValidStamps(StampsOf(limiter, procs[k].ip),
                                                       procs[k].now, Window)]
    /\ UNCHANGED <<besideLimiter, limiter, admitted, crashed>>

\* limiter[ip] = valid
RLStore(k) ==
    /\ ~crashed
    /\ procs[k].pc = "store"
    /\ limiter' = Put(limiter, procs[k].ip, procs[k].valid)
    /\ procs' = [procs EXCEPT ![k].pc = "check"]
    /\ UNCHANGED <<besideLimiter, admitted, crashed>>

\* if len(limiter[ip]) >= requests { return c.Error(...) }
RLCheck(k) ==
    /\ ~crashed
    /\ procs[k].pc = "check"
    /\ procs' = [procs EXCEPT ![k].pc =
                     IF OverLimit(StampsOf(limiter, procs[k].ip), Requests)
                     THEN "rejected" ELSE "append"]
    /\ UNCHANGED <<besideLimiter, limiter, admitted, crashed>>

\* limiter[ip] = append(limiter[ip], now); the request goes on to next(c)
RLAppend(k) ==
    /\ ~crashed
    /\ procs[k].pc = "append"
    /\ limiter' = Put(limiter, procs[k].ip,
                      Append(StampsOf(limiter, procs[k].ip), procs[k].now))
    /\ admitted' = Put(admitted, procs[k].ip,
                       Append(StampsOf(admitted, procs[k].ip), procs[k].now))
    /\ procs' = [procs EXCEPT ![k].pc = "next"]
    /\ UNCHANGED <<besideLimiter, crashed>>

\* a map write that overlaps another goroutine's access to the same map is a
\* data race: besides the two orders of the accesses, the runtime may stop the
\* process with "concurrent map writes" / "concurrent map read and map write"
RLRace(k, j) ==
    /\ ~crashed
    /\ k # j
    /\ procs[k].pc \in TableWrites
    /\ procs[j].pc \in TableSteps
    /\ crashed' = TRUE
    /\ UNCHANGED <<besideLimiter, limiter, admitted, procs>>

\* the function returns: next(c)'s result, or the error of the rejection
RLReturn(k) ==
    /\ ~crashed
    /\ procs[k].pc \in {"next", "rejected"}
    /\ procs' = [procs EXCEPT ![k] = NoProc]
    /\ UNCHANGED <<besideLimiter, limiter, admitted, crashed>>

\* requests arrive until Requests + 1 of them were admitted; time passes between
\* bursts of requests
NextRLc ==
    \/ ~Installed(middleware, "RateLimit") /\ Use("RateLimit")
    \/ \E k \in 1..MaxCalls :
           Len(StampsOf(admitted, "c1")) <= Requests /\ RLEnter(k)
    \/ \E k \in 1..MaxCalls : RLClean(k)
    \/ \E k \in 1..MaxCalls : RLStore(k)
    \/ \E k \in 1..MaxCalls : RLCheck(k)
    \/ \E k \in 1..MaxCalls : RLAppend(k)
    \/ \E k \in 1..MaxCalls, j \in 1..MaxCalls : RLRace(k, j)
    \/ \E k \in 1..MaxCalls : RLReturn(k)
    \/ (\A k \in 1..MaxCalls : procs[k].pc = "idle") /\ ~crashed /\ Tick

SpecRLc == Init /\ [][NextRLc]_vars

\* the requests admitted to next that are less than Window older than the i-th
InWindowOf(adm, i) ==
    { j \in 1..Len(adm) : adm[j] <= adm[i] /\ adm[i] - adm[j] < Window }

\* C21: the accesses of concurrent requests to RateLimit's table are serialized:
\* no two requests are inside their read-clean-check-append of the table at the
\* same time, no access races with another, and in every interleaving at most N
\* requests of one client are admitted to next within a window d.
C21_Serialized ==
    /\ ~crashed
    /\ \A k \in 1..MaxCalls, j \in 1..MaxCalls :
           (k # j /\ procs[k].pc # "idle" /\ procs[j].pc # "idle") =>
               ~(InTable(k) /\ InTable(j))
    /\ \A i \in 1..Len(StampsOf(admitted, "c1")) :
           Cardinality(InWindowOf(StampsOf(admitted, "c1"), i)) <= Requests

-----------------------------------------------------------------------------
(* Router.GetCachedResponse call by call on r.cache (a sync.Map), with        *)
(* Router.CacheResponse storing in between: SpecEv.  procs[k] is a goroutine  *)
(* inside GetCachedResponse(EvKey).                                           *)

\* the key all callers use: the URL of GET /a
EvKey == URLString(<<"/", "a">>, <<>>)

\* what these steps leave alone
besideCache ==
    <<trees, middleware, groups, poolCtx, paramsPool, limiter, mwCache, routes,
      admitted, lastMiss, served, calls, ctxObjs, ctxIdle, mapObjs, mapIdle, crashed,
      notFound, notMethod, metrics, locks>>

\* r.cache.Store(key, struct{...}{..., expires: time.Now().Add(duration)})
EvStore ==
    /\ cache' = CacheResponse(cache, EvKey, <<"body">>, EmptyMap, 200, now, Ttl)
    /\ UNCHANGED <<besideCache, procs, now>>

\* value, ok := r.cache.Load(key)
EvLoad(k) ==
    /\ procs[k].pc = "idle"
    /\ procs' = [procs EXCEPT ![k] =
                     IF EvKey \in DOMAIN cache
                     THEN [pc |-> "loaded", cached |-> cache[EvKey]]
                     ELSE [pc |-> "miss", cached |-> Entry(<<>>, EmptyMap, 0, 0)]]
    /\ UNCHANGED <<besideCache, cache, now>>

\* if time.Now().Before(cached.expires) { return ..., true }
EvBefore(k) ==
    /\ procs[k].pc = "loaded"
    /\ procs' = [procs EXCEPT ![k].pc =
                     IF now < procs[k].cached.expires THEN "hit" ELSE "delete"]
    /\ UNCHANGED <<besideCache, cache, now>>

\* r.cache.Delete(key): it removes whatever the key holds now
EvDelete(k) ==
    /\ procs[k].pc = "delete"
    /\ cache' = [x \in DOMAIN cache \ {EvKey} |-> cache[x]]
    /\ procs' = [procs EXCEPT ![k].pc = "miss"]
    /\ UNCHANGED <<besideCache, now>>

\* return cached.response, cached.headers, cached.code, true / nil, nil, 0, false
EvReturn(k) ==
    /\ procs[k].pc \in {"hit", "miss"}
    /\ procs' = [procs EXCEPT ![k] = NoProc]
    /\ UNCHANGED <<besideCache, cache, now>>

\* the clock
EvTick ==
    /\ now < MaxTime
    /\ now' = now + 1
    /\ UNCHANGED <<besideCache, cache, procs>>

NextEv ==
    \/ EvStore
    \/ \E k \in 1..MaxCalls : EvLoad(k)
    \/ \E k \in 1..MaxCalls : EvBefore(k)
    \/ \E k \in 1..MaxCalls : EvDelete(k)
    \/ \E k \in 1..MaxCalls : EvReturn(k)
    \/ EvTick

SpecEv == Init /\ [][NextEv]_vars

\* C28: whatever the interleaving of GetCachedResponse and CacheResponse calls
\* on one key, an entry that has not expired is not removed: it is in the map
\* after every step (as it was, or replaced by a newer one).
C28_OnlyExpiredEvicted ==
    [][(EvKey \in DOMAIN cache /\ now < cache[EvKey].expires)
           => EvKey \in DOMAIN cache']_vars

-----------------------------------------------------------------------------
(* The Cache middleware statement by statement, run by concurrent goroutines  *)
(* that share its map and its sync.RWMutex: SpecCm.  procs[k] is the          *)
(* goroutine of GET request k for the key CmKey; locks is mu.                 *)

\* key := c.Request.URL.String() of GET /a
CmKey == URLString(<<"/", "a">>, <<>>)

\* what these steps leave alone
besideMwCache ==
    <<trees, middleware, groups, cache, poolCtx, paramsPool, limiter, routes,
      admitted, lastMiss, served, calls, ctxObjs, ctxIdle, mapObjs, mapIdle, crashed,
      notFound, notMethod, metrics>>

\* the zero value of the map's element type
NoEntry == Entry(<<>>, EmptyMap, 0, 0)

\* what the handler of request k records, and the errors it may return
CmRecorded(k) == JSON(NewRecorder, 200, <<"r", k>>)
CmErrs == {"nil", "boom"}

\* mu.RLock() goes through when no writer holds mu
CanRLockIgnoresWriter(l) == TRUE

CanRLock(l) == l.w = 0

\* mu.Lock() goes through when nobody holds mu
CanLock(l) == l.w = 0 /\ l.r = {}

\* a request arrives; the method is GET
CmEnter(k) ==
    /\ procs[k].pc = "idle"
    /\ Installed(middleware, "Cache")
    /\ procs' = [procs EXCEPT ![k] =
                     [pc |-> "rlock", ok |-> FALSE, cached |-> NoEntry, whole |-> TRUE,
                      ran |-> FALSE, entry |-> NoEntry, rec |-> NewRecorder,
                      w |-> NewWriter, err |-> "nil"]]
    /\ UNCHANGED <<besideMwCache, mwCache, locks, now>>

\* mu.RLock()
CmRLock(k) ==
    /\ procs[k].pc = "rlock"
    /\ CanRLock(locks)
    /\ locks' = [locks EXCEPT !.r = @ \cup {k}]
    /\ procs' = [procs EXCEPT ![k].pc = "read"]
    /\ UNCHANGED <<besideMwCache, mwCache, now>>

\* cached, ok := cache[key]; ok && time.Now().Before(cached.expires); then
\* mu.RUnlock() on either branch.  A read while another goroutine is halfway
\* through its assignment to cache[key] gets an element that is not whole.
CmRead(k) ==
    /\ procs[k].pc = "read"
    /\ procs' = [procs EXCEPT
                     ![k].ok = CacheHit(mwCache, CmKey, now),
                     ![k].cached = IF CmKey \in DOMAIN mwCache THEN mwCache[CmKey]
                                   ELSE NoEntry,
                     ![k].whole = \A j \in 1..MaxCalls : procs[j].pc # "assign2",
                     ![k].pc = IF CacheHit(mwCache, CmKey, now) THEN "hit" ELSE "next"]
    /\ locks' = [locks EXCEPT !.r = @ \ {k}]
    /\ UNCHANGED <<besideMwCache, mwCache, now>>

\* "Write cached response" and return nil
CmHit(k) ==
    /\ procs[k].pc = "hit"
    /\ procs' = [procs EXCEPT ![k].w = WriteCached(@, procs[k].cached),
                              ![k].pc = "done"]
    /\ UNCHANGED <<besideMwCache, mwCache, locks, now>>

\* recorder, newCtx, then err := next(newCtx); an error is returned at once
CmNext(k, err) ==
    /\ procs[k].pc = "next"
    /\ procs' = [procs EXCEPT ![k].ran = TRUE,
                              ![k].err = err,
                              ![k].rec = IF err = "nil" THEN CmRecorded(k) ELSE @,
                              ![k].pc = IF err = "nil" THEN "lock" ELSE "done"]
    /\ UNCHANGED <<besideMwCache, mwCache, locks, now>>

\* mu.Lock()
CmLock(k) ==
    /\ procs[k].pc = "lock"
    /\ CanLock(locks)
    /\ locks' = [locks EXCEPT !.w = k]
    /\ procs' = [procs EXCEPT ![k].pc = "assign1"]
    /\ UNCHANGED <<besideMwCache, mwCache, now>>

\* cache[key] = struct{...}{...}: the literal is evaluated (time.Now().Add) and
\* copied into the map's element field after field; here response, headers and
\* code are in place and expires is still the old one
CmAssign1(k) ==
    /\ procs[k].pc = "assign1"
    /\ LET e == Entry(procs[k].rec.body, procs[k].rec.hdr, procs[k].rec.code,
                      Expiry(now, Ttl))
           old == IF CmKey \in DOMAIN mwCache THEN mwCache[CmKey] ELSE NoEntry
       IN /\ mwCache' = Put(mwCache, CmKey, [e EXCEPT !.expires = old.expires])
          /\ procs' = [procs EXCEPT ![k].entry = e, ![k].pc = "assign2"]
    /\ UNCHANGED <<besideMwCache, locks, now>>

\* the assignment is complete
CmAssign2(k) ==
    /\ procs[k].pc = "assign2"
    /\ mwCache' = Put(mwCache, CmKey, procs[k].entry)
    /\ procs' = [procs EXCEPT ![k].pc = "unlock"]
    /\ UNCHANGED <<besideMwCache, locks, now>>

\* mu.Unlock()
CmUnlock(k) ==
    /\ procs[k].pc = "unlock"
    /\ locks' = [locks EXCEPT !.w = 0]
    /\ procs' = [procs EXCEPT ![k].pc = "copy"]
    /\ UNCHANGED <<besideMwCache, mwCache, now>>

\* "Copy the response to the original response writer" and return nil
CmCopy(k) ==
    /\ procs[k].pc = "copy"
    /\ procs' = [procs EXCEPT ![k].w = CopyRecorder(@, procs[k].rec),
                              ![k].pc = "done"]
    /\ UNCHANGED <<besideMwCache, mwCache, locks, now>>

\* the middleware has returned
CmReturn(k) ==
    /\ procs[k].pc = "done"
    /\ procs' = [procs EXCEPT ![k] = NoProc]
    /\ UNCHANGED <<besideMwCache, mwCache, locks, now>>

\* the clock
CmTick ==
    /\ now < MaxTime
    /\ now' = now + 1
    /\ UNCHANGED <<besideMwCache, mwCache, locks, procs>>

NextCm ==
    \/ ~Installed(middleware, "Cache") /\ Use("Cache")
    \/ \E k \in 1..MaxCalls : CmEnter(k)
    \/ \E k \in 1..MaxCalls : CmRLock(k)
    \/ \E k \in 1..MaxCalls : CmRead(k)
    \/ \E k \in 1..MaxCalls : CmHit(k)
    \/ \E k \in 1..MaxCalls, err \in CmErrs : CmNext(k, err)
    \/ \E k \in 1..MaxCalls : CmLock(k)
    \/ \E k \in 1..MaxCalls : CmAssign1(k)
    \/ \E k \in 1..MaxCalls : CmAssign2(k)
    \/ \E k \in 1..MaxCalls : CmUnlock(k)
    \/ \E k \in 1..MaxCalls : CmCopy(k)
    \/ \E k \in 1..MaxCalls : CmReturn(k)
    \/ CmTick

SpecCm == Init /\ [][NextCm]_vars

\* the statements between mu.Lock() and mu.Unlock()
UnderLock == {"assign1", "assign2", "unlock"}

\* the statements after next(newCtx) returned nil
AfterNextOk == {"lock", "assign1", "assign2", "unlock", "copy"}

\* C29: a goroutine holds mu for reading only at the map read and for writing
\* only from the map assignment to mu.Unlock(), so never while next runs; a
\* request that found no unexpired entry invokes next, whatever other requests
\* for the key are doing, and a request answered from the map does not; the
\* writer that has finished its assignment finds its own entry in the map, so the
\* map holds the entry of the last writer; and what a read took from the map was
\* whole: no entry, or status, headers, body and expiry of one assignment.
C29_LockAroundMapOnly ==
    \A k \in 1..MaxCalls :
        procs[k].pc # "idle" =>
            /\ k \in locks.r <=> procs[k].pc = "read"
            /\ locks.w = k <=> procs[k].pc \in UnderLock
            /\ procs[k].pc = "next" => (locks.w # k /\ k \notin locks.r)
            /\ procs[k].pc \in AfterNextOk => (procs[k].ran /\ ~procs[k].ok)
            /\ procs[k].pc = "hit" => (procs[k].ok /\ ~procs[k].ran)
            /\ procs[k].pc = "unlock" =>
                   (CmKey \in DOMAIN mwCache /\ mwCache[CmKey] = procs[k].entry)
            /\ procs[k].whole
            /\ procs[k].cached # NoEntry =>
                   \E j \in 1..MaxCalls, t \in 0..MaxTime :
                       procs[k].cached = Entry(CmRecorded(j).body, CmRecorded(j).hdr,
                                               CmRecorded(j).code, Expiry(t, Ttl))

\* C29: two requests for the key both missed and both ran next; the first has
\* stored its entry and the second, the last writer, has replaced it with its own
C29_Witness ==
    /\ procs[1].pc = "copy"
    /\ procs[2].pc = "unlock"
    /\ procs[1].ran /\ procs[2].ran
    /\ ~procs[1].ok /\ ~procs[2].ok
    /\ procs[1].cached = NoEntry /\ procs[2].cached = NoEntry
    /\ mwCache[CmKey] = procs[2].entry
    /\ procs[2].entry # procs[1].entry

=============================================================================
